---- MODULE Spec2Model ----
(***************************************************************************)
(* UDP packet repeater (repeater.c, parseconfig.c).                        *)
(*                                                                         *)
(* The model follows the executable built by src/Makefile: main() parses   *)
(* the JSON rules with parse_listener / parse_transmitter / parse_target / *)
(* parse_map, each of which ends in one create_* call of repeater.c, then  *)
(* start_repeater() runs verify_config(), forks the daemon and enters the  *)
(* poll loop, where recv_and_forward_packet() matches one datagram against *)
(* the map list and send_packet() forwards it.                             *)
(***************************************************************************)
EXTENDS Integers, Sequences, FiniteSets, TLC

(***************************************************************************)
(* Program constants.                                                      *)
(***************************************************************************)
MAX_FDS == 256
BUFFER_SIZE == 65507
INT_MAX == 2147483647

(***************************************************************************)
(* Bounds of the model.                                                    *)
(***************************************************************************)
MaxListeners == 2
MaxTransmitters == 1
MaxTargets == 2
MaxMaps == 2
MaxPayloadLen == 1
MaxValidations == 2

(***************************************************************************)
(* Text of the JSON rules file.  A string value is a sequence of           *)
(* characters, so that atoi, inet_pton and the strncmp prefix tests are    *)
(* computed on the text rather than assumed.                               *)
(***************************************************************************)
Digits == {"0", "1", "2", "3", "4", "5", "6", "7", "8", "9"}

DigitVal(c) ==
    CASE c = "0" -> 0 [] c = "1" -> 1 [] c = "2" -> 2 [] c = "3" -> 3
      [] c = "4" -> 4 [] c = "5" -> 5 [] c = "6" -> 6 [] c = "7" -> 7
      [] c = "8" -> 8 [] c = "9" -> 9

\* A comparison of the whole name, as strcmp would make it.
HasPrefix_whole(s, key) == s = key

\* strncmp(s, key, Len(key)) == 0: the first Len(key) characters agree.
HasPrefix(s, key) ==
    /\ Len(s) >= Len(key)
    /\ SubSeq(s, 1, Len(key)) = key

\* The leading run of decimal digits of s, from position k on.
RECURSIVE DigitRun(_, _)
DigitRun(s, k) ==
    IF k > Len(s) \/ s[k] \notin Digits
    THEN << >>
    ELSE << s[k] >> \o DigitRun(s, k + 1)

\* The value of a digit string, or -1 once it exceeds INT_MAX.
RECURSIVE DecimalValue(_, _)
DecimalValue(ds, acc) ==
    IF ds = << >> THEN acc
    ELSE LET d == DigitVal(Head(ds))
         IN  IF acc > (INT_MAX - d) \div 10
             THEN -1
             ELSE DecimalValue(Tail(ds), acc * 10 + d)

\* The value of a digit string modulo 2^32, kept as two 16-bit limbs.
RECURSIVE DecimalLimbs(_, _, _)
DecimalLimbs(ds, hi, lo) ==
    IF ds = << >> THEN << hi, lo >>
    ELSE LET l == lo * 10 + DigitVal(Head(ds))
             h == hi * 10 + (l \div 65536)
         IN  DecimalLimbs(Tail(ds), h % 65536, l % 65536)

\* Two 16-bit limbs read as a 32-bit two's complement int.
AsInt32(limbs) ==
    IF limbs[1] >= 32768
    THEN (limbs[1] - 65536) * 65536 + limbs[2]
    ELSE limbs[1] * 65536 + limbs[2]

\* atoi(s): the set of results the C library may give.  A value that fits
\* an int is returned as it is.  One that does not is undefined behaviour:
\* a library that converts through a 64-bit strtol and narrows gives the
\* low 32 bits, one whose long is 32 bits gives INT_MAX.
atoi(s) ==
    LET neg == s # << >> /\ s[1] = "-"
        ds  == DigitRun(s, IF neg THEN 2 ELSE 1)
        v   == DecimalValue(ds, 0)
    IN  IF v >= 0
        THEN { IF neg THEN 0 - v ELSE v }
        ELSE { AsInt32(DecimalLimbs(ds, 0, 0)), INT_MAX }

\* The text of s up to the first "." from position k on, and the position
\* after that ".".
RECURSIVE UpToDot(_, _)
UpToDot(s, k) ==
    IF k > Len(s) \/ s[k] = "."
    THEN << >>
    ELSE << s[k] >> \o UpToDot(s, k + 1)

RECURSIVE SplitDots(_, _)
SplitDots(s, k) ==
    LET part == UpToDot(s, k)
        next == k + Len(part)
    IN  IF next > Len(s)
        THEN << part >>
        ELSE << part >> \o SplitDots(s, next + 1)

\* One field of a dotted quad: 1 to 3 decimal digits with a value <= 255,
\* or -1.
Octet(part) ==
    LET v == DecimalValue(part, 0)
    IN  IF part = << >> \/ Len(part) > 3 \/ DigitRun(part, 1) # part \/ v > 255
        THEN -1
        ELSE v

\* inet_pton(AF_INET, s, &addr): the four octets of addr.s_addr in network
\* order, or << >> when inet_pton returns 0 (s is no IPv4 address).
inet_pton(s) ==
    LET parts == SplitDots(s, 1)
    IN  IF Len(parts) = 4 /\ \A k \in 1..4 : Octet(parts[k]) >= 0
        THEN [k \in 1..4 |-> Octet(parts[k])]
        ELSE << >>

\* Byte order.  A value in network order is the sequence of its octets as
\* they travel; a value in host order is an integer.
ntohl(octets) == ((octets[1] * 256 + octets[2]) * 256 + octets[3]) * 256 + octets[4]
htonl(v) == << v \div 16777216, (v \div 65536) % 256, (v \div 256) % 256, v % 256 >>
ntohs(octets) == octets[1] * 256 + octets[2]
htons(v) == << v \div 256, v % 256 >>

(***************************************************************************)
(* JSON values of the rules file.  A field of an object has a name, a      *)
(* type and the value of that type; the members it does not use are left   *)
(* at their defaults.                                                      *)
(***************************************************************************)
IntField(name, v) == [name |-> name, type |-> "integer", int |-> v, str |-> << >>, arr |-> << >>]
StrField(name, s) == [name |-> name, type |-> "string", int |-> 0, str |-> s, arr |-> << >>]
ArrField(name, a) == [name |-> name, type |-> "array", int |-> 0, str |-> << >>, arr |-> a]
IntElem(v) == [type |-> "integer", int |-> v]

N_id == << "i", "d" >>
N_address == << "a", "d", "d", "r", "e", "s", "s" >>
N_port == << "p", "o", "r", "t" >>
N_transmitter == << "t", "r", "a", "n", "s", "m", "i", "t", "t", "e", "r" >>
N_source == << "s", "o", "u", "r", "c", "e" >>
N_target == << "t", "a", "r", "g", "e", "t" >>
N_listen == << "l", "i", "s", "t", "e", "n" >>
N_transmit == << "t", "r", "a", "n", "s", "m", "i", "t" >>
N_map == << "m", "a", "p" >>
N_identifier == << "i", "d", "e", "n", "t", "i", "f", "i", "e", "r" >>
Star == << "*" >>

\* temp <= 1024 || temp > 65535
PortOutOfRange(temp) == temp <= 1024 \/ temp > 65535

(***************************************************************************)
(* parseconfig.c: the field loops of the four object parsers.  Each takes  *)
(* the fields of one JSON object in file order and yields the set of       *)
(* outcomes of the loop (a set because of atoi): the locals of the         *)
(* function, with exit set once an exit(1) was reached.  ptext keeps the   *)
(* port as it is written in the file, and diag the diagnostics printed.    *)
(***************************************************************************)
Locals ==
    [exit |-> FALSE, id |-> 0, address |-> 0, port |-> 0, ref |-> 0, targets |-> << >>,
     id_found |-> FALSE, address_found |-> FALSE, port_found |-> FALSE,
     ref_found |-> FALSE, ptext |-> << >>, diag |-> << >>]

\* One line on stdout or stderr: its text without the numbers, and the id it
\* names (0 when it names none).
Diagnostic(text, id) == [text |-> text, id |-> id]

Said(st, text) == [st EXCEPT !.diag = Append(@, Diagnostic(text, 0))]

Died(st) == [st EXCEPT !.exit = TRUE]

\* "id", "source", "transmitter": an integer member.
id_member(f, st) ==
    IF f.type # "integer" THEN Died(Said(st, "id must be an integer"))
    ELSE [st EXCEPT !.id = f.int, !.id_found = TRUE]

ref_member(f, st) ==
    IF f.type # "integer" THEN Died(Said(st, "transmitter must be an integer"))
    ELSE [st EXCEPT !.ref = f.int, !.ref_found = TRUE]

\* "address": "*" for any (where star is allowed), otherwise a dotted quad.
address_member(f, st, star) ==
    IF f.type # "string" THEN Died(Said(st, "address must be a dotted decimal string"))
    ELSE IF star /\ HasPrefix(f.str, Star)
         THEN [st EXCEPT !.address = 0, !.address_found = TRUE]
         ELSE LET addr == inet_pton(f.str)
              IN  IF addr = << >> THEN Died(Said(st, "address is not a valid IPv4 address"))
                  ELSE [st EXCEPT !.address = ntohl(addr), !.address_found = TRUE]

\* "port": "*" for any (where star is allowed), otherwise atoi and the
\* range test.
port_member(f, st, star) ==
    IF f.type # "string" THEN { Died(Said(st, "port must be a string")) }
    ELSE IF star /\ HasPrefix(f.str, Star)
         THEN { [st EXCEPT !.port = 0, !.port_found = TRUE, !.ptext = f.str] }
         ELSE { IF PortOutOfRange(temp) THEN Died(Said(st, "is an invalid port"))
                ELSE [st EXCEPT !.port = temp, !.port_found = TRUE, !.ptext = f.str]
                : temp \in atoi(f.str) }

listener_member(f, st) ==
    IF st.exit THEN { st }
    ELSE IF HasPrefix(f.name, N_id) THEN { id_member(f, st) }
    ELSE IF HasPrefix(f.name, N_address) THEN { address_member(f, st, TRUE) }
    ELSE IF HasPrefix(f.name, N_port) THEN port_member(f, st, FALSE)
    ELSE { st }

transmitter_member(f, st) ==
    IF st.exit THEN { st }
    ELSE IF HasPrefix(f.name, N_id) THEN { id_member(f, st) }
    ELSE IF HasPrefix(f.name, N_address) THEN { address_member(f, st, TRUE) }
    ELSE IF HasPrefix(f.name, N_port) THEN port_member(f, st, TRUE)
    ELSE { st }

target_member(f, st) ==
    IF st.exit THEN { st }
    ELSE IF HasPrefix(f.name, N_id) THEN { id_member(f, st) }
    ELSE IF HasPrefix(f.name, N_address) THEN { address_member(f, st, FALSE) }
    ELSE IF HasPrefix(f.name, N_port) THEN port_member(f, st, FALSE)
    ELSE IF HasPrefix(f.name, N_transmitter) THEN { ref_member(f, st) }
    ELSE { st }

map_member(f, st) ==
    IF st.exit THEN { st }
    ELSE IF HasPrefix(f.name, N_source) THEN { id_member(f, st) }
    ELSE IF HasPrefix(f.name, N_target)
         THEN { IF f.type # "array" THEN Died(Said(st, "target must be an array of integers"))
                ELSE [st EXCEPT !.targets = f.arr, !.ref_found = TRUE] }
    ELSE IF HasPrefix(f.name, N_address) THEN { address_member(f, st, TRUE) }
    ELSE IF HasPrefix(f.name, N_port) THEN port_member(f, st, TRUE)
    ELSE { st }

RECURSIVE listener_members(_, _)
listener_members(fields, st) ==
    IF fields = << >> THEN { st }
    ELSE UNION { listener_members(Tail(fields), s) : s \in listener_member(Head(fields), st) }

RECURSIVE transmitter_members(_, _)
transmitter_members(fields, st) ==
    IF fields = << >> THEN { st }
    ELSE UNION { transmitter_members(Tail(fields), s) : s \in transmitter_member(Head(fields), st) }

RECURSIVE target_members(_, _)
target_members(fields, st) ==
    IF fields = << >> THEN { st }
    ELSE UNION { target_members(Tail(fields), s) : s \in target_member(Head(fields), st) }

RECURSIVE map_members(_, _)
map_members(fields, st) ==
    IF fields = << >> THEN { st }
    ELSE UNION { map_members(Tail(fields), s) : s \in map_member(Head(fields), st) }

\* The checks after the loop: each member that was not found is reported,
\* and any of them is fatal.
Complete(st, needs_ref) ==
    LET s1 == IF ~st.id_found THEN Said(st, "id not found") ELSE st
        s2 == IF ~st.address_found THEN Said(s1, "address not found") ELSE s1
        s3 == IF ~st.port_found THEN Said(s2, "port not found") ELSE s2
        s4 == IF needs_ref /\ ~st.ref_found THEN Said(s3, "transmitter not found") ELSE s3
    IN  IF st.exit THEN st
        ELSE IF s4.diag # st.diag THEN Died(s4)
        ELSE st

\* The same checks in parse_map, where the member after source is target.
CompleteMap(st) ==
    LET s1 == IF ~st.id_found THEN Said(st, "source not found") ELSE st
        s2 == IF ~st.ref_found THEN Said(s1, "target not found") ELSE s1
        s3 == IF ~st.address_found THEN Said(s2, "address not found") ELSE s2
        s4 == IF ~st.port_found THEN Said(s3, "port not found") ELSE s3
    IN  IF st.exit THEN st
        ELSE IF s4.diag # st.diag THEN Died(s4)
        ELSE st

\* The targets array of a map object: every element must be an integer.
\* The elements before the first that is not have had their map created.
RECURSIVE IntegerPrefix(_)
IntegerPrefix(arr) ==
    IF arr = << >> \/ Head(arr).type # "integer"
    THEN << >>
    ELSE << Head(arr).int >> \o IntegerPrefix(Tail(arr))

(***************************************************************************)
(* State.                                                                  *)
(*   pc, exit_code   the process started from the command line: parsing    *)
(*                   the rules ("config") or ended ("exited") with that    *)
(*                   exit status (-1 while it runs)                        *)
(*   found           the sections parse_rules has seen                     *)
(*   cfg_ports       the port texts of the objects accepted so far         *)
(*   poll_fds, listener_ids, transmitters (transmitter_hash_table),        *)
(*   targets (target_hash_table), maps (map_head .. map_tail)              *)
(*                   the globals of repeater.c; the hash tables are kept   *)
(*                   in insertion order, the order hh.next walks them      *)
(*   sockets         the kernel's view of each socket fd                   *)
(*   verify_rc       what verify_config returned last (1 before it ran)    *)
(*   verified        the number of calls of verify_config so far           *)
(*   loop            the daemon: "off", at "poll", in the "pass" over      *)
(*                   poll_fds, or "exited"                                 *)
(*   revents, i      the revents poll filled in and the loop index         *)
(*   dispatch        the last call of recv_and_forward_packet              *)
(*   poll_errno      errno of the poll call that failed, "" while none has *)
(*   diag            the diagnostics the process has printed before the    *)
(*                   loop, in the order of the calls                       *)
(*   parsed          the JSON value in the hands of the parser that called *)
(*                   exit, as its sequence of members; under ParserSpec    *)
(*                   the value handed last to a parser                     *)
(*   lowest_fd       the lowest descriptor that is free when main starts:  *)
(*                   3 unless the process inherited open descriptors       *)
(***************************************************************************)
VARIABLES pc, exit_code, found, cfg_ports,
          poll_fds, listener_ids, sockets, transmitters, targets, maps,
          verify_rc, verified, loop, revents, i, dispatch, poll_errno,
          diag, parsed, lowest_fd

cfgVars == << found, cfg_ports >>
regVars == << poll_fds, listener_ids, sockets, transmitters, targets, maps >>
loopVars == << loop, revents, i, dispatch, poll_errno >>
vars == << pc, exit_code, found, cfg_ports,
           poll_fds, listener_ids, sockets, transmitters, targets, maps,
           verify_rc, verified, loop, revents, i, dispatch, poll_errno,
           diag, parsed, lowest_fd >>

SOCKET_RECV_BUFFER == 5 * 1024 * 1024
SOCKET_SEND_BUFFER == 5 * 1024 * 1024
INADDR_ANY == << 0, 0, 0, 0 >>

NoDispatch ==
    [fd |-> -1, listener_id |-> 0, recvs |-> 0, n |-> -1, src_addr |-> INADDR_ANY, src_port |-> << 0, 0 >>,
     payload |-> << >>, sent |-> << >>]

\* static int listener_ids[MAX_FDS]: zero until a create_* call sets an entry.
ListenerIdOf(fd) == IF fd \in DOMAIN listener_ids THEN listener_ids[fd] ELSE 0

num_fds == Len(poll_fds)

\* HASH_FIND_INT: the position of the record with that id, 0 for NULL.
HASH_FIND_INT(table, id) ==
    LET hits == { k \in 1..Len(table) : table[k].id = id }
    IN  IF hits = {} THEN 0 ELSE CHOOSE k \in hits : \A m \in hits : k <= m

\* The end of a process: its memory is gone and the kernel has closed its
\* sockets.
Released ==
    /\ found' = { }
    /\ cfg_ports' = { }
    /\ poll_fds' = << >>
    /\ listener_ids' = << >>
    /\ sockets' = << >>
    /\ transmitters' = << >>
    /\ targets' = << >>
    /\ maps' = << >>

\* exit(status) of the process that parses the rules.
Exit(status) ==
    /\ pc' = "exited"
    /\ exit_code' = status
    /\ Released
    /\ UNCHANGED << verify_rc, verified, loopVars, lowest_fd >>

\* An exit with status 0 after the lines said were printed.
FailQuietly(said) == Exit(0) /\ diag' = diag \o said

\* exit(1) after the lines said were printed.
Fail(said) == Exit(1) /\ diag' = diag \o said

(***************************************************************************)
(* open_socket.  os names the system call that fails, "ok" for none.       *)
(* socket() returns the lowest free descriptor; 0, 1, 2 are the standard   *)
(* streams, the rules file is closed before parse_rules runs, and the      *)
(* descriptors the process inherited stay open.                            *)
(***************************************************************************)
StdStreams == 3

\* A socket() that hands out the same descriptor again.
socket_fd_again == StdStreams

socket_fd == lowest_fd + num_fds

\* An open_socket without the test of sock against MAX_FDS.
open_socket_exits_uncapped(address, port, os) ==
    \/ num_fds >= MAX_FDS
    \/ os = "socket"
    \/ os \in { "SO_REUSEADDR", "SO_RCVBUF", "O_NONBLOCK" }
    \/ (~(address = 0 /\ port = 0) /\ os = "bind")

\* An open_socket that returns the socket when bind has failed.
open_socket_exits_unbound(address, port, os) ==
    \/ num_fds >= MAX_FDS
    \/ os = "socket"
    \/ socket_fd >= MAX_FDS
    \/ os \in { "SO_REUSEADDR", "SO_RCVBUF", "O_NONBLOCK" }

open_socket_exits(address, port, os) ==
    \/ num_fds >= MAX_FDS
    \/ os = "socket"
    \/ socket_fd >= MAX_FDS
    \/ os \in { "SO_REUSEADDR", "SO_RCVBUF", "O_NONBLOCK" }
    \/ (~(address = 0 /\ port = 0) /\ os = "bind")

\* The line open_socket prints before its exit(1).
open_socket_says(address, port, os) ==
    << Diagnostic(IF num_fds >= MAX_FDS THEN "num_fds exceeded MAX_FDS"
                  ELSE IF os = "socket" THEN "Opening socket"
                  ELSE IF socket_fd >= MAX_FDS THEN "Socket exceeded MAX_FDS"
                  ELSE IF os = "SO_REUSEADDR" THEN "Setting SO_REUSEADDR"
                  ELSE IF os = "SO_RCVBUF" THEN "Setting SO_RCVBUF"
                  ELSE IF os = "O_NONBLOCK" THEN "Setting non-blocking"
                  ELSE "Binding", 0) >>

\* The socket as the kernel holds it when open_socket returns: bind is
\* called unless address and port are both 0, and binds unless it fails.
open_socket(address, port, os) ==
    [reuseaddr |-> TRUE, rcvbuf |-> SOCKET_RECV_BUFFER, sndbuf |-> 0, nonblock |-> TRUE,
     bound |-> ~(address = 0 /\ port = 0) /\ os # "bind",
     address |-> IF address = 0 THEN INADDR_ANY ELSE htonl(address),
     port |-> htons(port)]

(***************************************************************************)
(* repeater.c: the create_* calls.                                         *)
(***************************************************************************)
\* One check of a create_* call: the line it prints when it fails.
Check(failed, text, id) == IF failed THEN << Diagnostic(text, id) >> ELSE << >>

create_listener(id, address, port, os) ==
    LET said == Check(id <= 0, "You must define a positive ID for each listener", 0)
                \o Check(port = 0, "Listeners must have at least a port defined", 0)
    IN  IF said # << >> THEN Fail(said)
        ELSE IF open_socket_exits(address, port, os)
        THEN Fail(open_socket_says(address, port, os))
        ELSE /\ Cardinality({ fd \in DOMAIN listener_ids : listener_ids[fd] > 0 }) < MaxListeners
             /\ poll_fds' = Append(poll_fds, [fd |-> socket_fd, events |-> "POLLIN"])
             /\ sockets' = (socket_fd :> open_socket(address, port, os)) @@ sockets
             /\ listener_ids' = (socket_fd :> id) @@ listener_ids
             /\ UNCHANGED << pc, exit_code, found, transmitters, targets, maps, verify_rc,
                             verified, loopVars, diag, lowest_fd >>

\* A create_transmitter that leaves the entry of its socket in
\* listener_ids as it was.
create_transmitter_roleless(id, address, port, os) ==
    LET said == Check(HASH_FIND_INT(transmitters, id) # 0, "Duplicate transmitter ID", 0)
                \o Check(id <= 0, "You must define a positive ID for each transmitter", 0)
    IN  IF said # << >> THEN Fail(said)
        ELSE IF open_socket_exits(address, port, os)
        THEN Fail(open_socket_says(address, port, os))
        ELSE IF os = "SO_SNDBUF" THEN Fail(<< Diagnostic("Setting SO_SNDBUF", 0) >>)
        ELSE /\ Len(transmitters) < MaxTransmitters
             /\ poll_fds' = Append(poll_fds, [fd |-> socket_fd, events |-> "POLLIN"])
             /\ sockets' = (socket_fd :> [open_socket(address, port, os)
                                            EXCEPT !.sndbuf = SOCKET_SEND_BUFFER]) @@ sockets
             /\ transmitters' = Append(transmitters, [id |-> id, sockfd |-> socket_fd])
             /\ UNCHANGED << pc, exit_code, found, listener_ids, targets, maps, verify_rc,
                             verified, loopVars, diag, lowest_fd >>

create_transmitter(id, address, port, os) ==
    LET said == Check(HASH_FIND_INT(transmitters, id) # 0, "Duplicate transmitter ID", 0)
                \o Check(id <= 0, "You must define a positive ID for each transmitter", 0)
    IN  IF said # << >> THEN Fail(said)
        ELSE IF open_socket_exits(address, port, os)
        THEN Fail(open_socket_says(address, port, os))
        ELSE IF os = "SO_SNDBUF" THEN Fail(<< Diagnostic("Setting SO_SNDBUF", 0) >>)
        ELSE /\ Len(transmitters) < MaxTransmitters
             /\ poll_fds' = Append(poll_fds, [fd |-> socket_fd, events |-> "POLLIN"])
             /\ sockets' = (socket_fd :> [open_socket(address, port, os)
                                            EXCEPT !.sndbuf = SOCKET_SEND_BUFFER]) @@ sockets
             /\ listener_ids' = (socket_fd :> -1) @@ listener_ids
             /\ transmitters' = Append(transmitters, [id |-> id, sockfd |-> socket_fd])
             /\ UNCHANGED << pc, exit_code, found, targets, maps, verify_rc, verified,
                             loopVars, diag, lowest_fd >>

\* A create_target that stores the record of an id it already holds.
create_target_again(id, address, port, transmitter_id) ==
    LET said == Check(id <= 0, "You must define a positive ID for each Target", 0)
                \o Check(address = 0, "Target must have an address defined", id)
                \o Check(port = 0, "Target must have a port defined", id)
                \o Check(transmitter_id <= 0, "Target must have a transmitter defined", id)
    IN  IF said # << >> THEN Fail(said)
        ELSE /\ Len(targets) < MaxTargets
             /\ targets' = Append(targets, [id |-> id, address |-> address, port |-> port,
                                            transmitter_id |-> transmitter_id])
             /\ UNCHANGED << pc, exit_code, found, poll_fds, listener_ids, sockets, transmitters,
                             maps, verify_rc, verified, loopVars, diag, lowest_fd >>

\* A create_target that takes the id of a transmitter or of a listener for
\* a duplicate as well.
create_target_shared_ids(id, address, port, transmitter_id) ==
    LET said == Check(\/ HASH_FIND_INT(targets, id) # 0
                      \/ HASH_FIND_INT(transmitters, id) # 0
                      \/ \E fd \in DOMAIN listener_ids : listener_ids[fd] = id,
                      "Duplicate target ID", id)
                \o Check(id <= 0, "You must define a positive ID for each Target", 0)
                \o Check(address = 0, "Target must have an address defined", id)
                \o Check(port = 0, "Target must have a port defined", id)
                \o Check(transmitter_id <= 0, "Target must have a transmitter defined", id)
    IN  IF said # << >> THEN Fail(said)
        ELSE /\ Len(targets) < MaxTargets
             /\ targets' = Append(targets, [id |-> id, address |-> address, port |-> port,
                                            transmitter_id |-> transmitter_id])
             /\ UNCHANGED << pc, exit_code, found, poll_fds, listener_ids, sockets, transmitters,
                             maps, verify_rc, verified, loopVars, diag, lowest_fd >>

create_target(id, address, port, transmitter_id) ==
    LET said == Check(HASH_FIND_INT(targets, id) # 0, "Duplicate target ID", id)
                \o Check(id <= 0, "You must define a positive ID for each Target", 0)
                \o Check(address = 0, "Target must have an address defined", id)
                \o Check(port = 0, "Target must have a port defined", id)
                \o Check(transmitter_id <= 0, "Target must have a transmitter defined", id)
    IN  IF said # << >> THEN Fail(said)
        ELSE /\ Len(targets) < MaxTargets
             /\ targets' = Append(targets, [id |-> id, address |-> address, port |-> port,
                                            transmitter_id |-> transmitter_id])
             /\ UNCHANGED << pc, exit_code, found, poll_fds, listener_ids, sockets, transmitters,
                             maps, verify_rc, verified, loopVars, diag, lowest_fd >>

\* A create_map that links the new record in at map_head instead.
create_map_at_head(list, listener_id, src_address, src_port, target_id) ==
    << [listener_id |-> listener_id, address |-> src_address,
        port |-> src_port, target_id |-> target_id, nth |-> Len(list) + 1] >> \o list

\* One map record appended at map_tail.  nth numbers the create_map calls:
\* the list had Len(list) records, one per earlier call.
create_map(list, listener_id, src_address, src_port, target_id) ==
    Append(list, [listener_id |-> listener_id, address |-> src_address,
                  port |-> src_port, target_id |-> target_id, nth |-> Len(list) + 1])

(***************************************************************************)
(* repeater.c: verify_config, computed loop by loop as the code does.      *)
(***************************************************************************)
\* A loop over the maps that looks no target up.
verify_maps_blind(ms, tgs, rc) == rc

\* A loop over the maps that ends after the map at map_head.
verify_maps_head(ms, tgs, rc) ==
    IF ms = << >> THEN rc
    ELSE IF HASH_FIND_INT(tgs, Head(ms).target_id) = 0 THEN -1 ELSE rc

\* for (map = map_head; ...): the target of each map is defined.
RECURSIVE verify_maps(_, _, _)
verify_maps(ms, tgs, rc) ==
    IF ms = << >> THEN rc
    ELSE verify_maps(Tail(ms), tgs,
                     IF HASH_FIND_INT(tgs, Head(ms).target_id) = 0 THEN -1 ELSE rc)

\* temp: some element of the list satisfies the test of the inner loop.
RECURSIVE map_uses(_, _, _)
map_uses(ms, target_id, temp) ==
    IF ms = << >> THEN temp
    ELSE map_uses(Tail(ms), target_id, IF Head(ms).target_id = target_id THEN 1 ELSE temp)

RECURSIVE target_uses(_, _, _)
target_uses(tgs, transmitter_id, temp) ==
    IF tgs = << >> THEN temp
    ELSE target_uses(Tail(tgs), transmitter_id,
                     IF Head(tgs).transmitter_id = transmitter_id THEN 1 ELSE temp)

\* A loop over the targets without the inner loop over the maps.
RECURSIVE verify_targets_defined(_, _, _, _)
verify_targets_defined(tgs, ms, txs, rc) ==
    IF tgs = << >> THEN rc
    ELSE verify_targets_defined(Tail(tgs), ms, txs,
             IF HASH_FIND_INT(txs, Head(tgs).transmitter_id) = 0 THEN -1 ELSE rc)

\* for (target = target_hash_table; ...): its transmitter is defined and
\* some map uses it.
RECURSIVE verify_targets(_, _, _, _)
verify_targets(tgs, ms, txs, rc) ==
    IF tgs = << >> THEN rc
    ELSE LET rc1 == IF HASH_FIND_INT(txs, Head(tgs).transmitter_id) = 0 THEN -1 ELSE rc
             rc2 == IF map_uses(ms, Head(tgs).id, 0) = 0 THEN -1 ELSE rc1
         IN  verify_targets(Tail(tgs), ms, txs, rc2)

\* for (transmitter = transmitter_hash_table; ...): some target uses it.
RECURSIVE verify_transmitters(_, _, _)
verify_transmitters(txs, tgs, rc) ==
    IF txs = << >> THEN rc
    ELSE verify_transmitters(Tail(txs), tgs,
                             IF target_uses(tgs, Head(txs).id, 0) = 0 THEN -1 ELSE rc)

\* The lines verify_config prints, loop by loop: one for each map whose
\* target is not defined,
RECURSIVE report_maps(_, _)
report_maps(ms, tgs) ==
    IF ms = << >> THEN << >>
    ELSE Check(HASH_FIND_INT(tgs, Head(ms).target_id) = 0,
               "Target referenced in map but not defined", Head(ms).target_id)
         \o report_maps(Tail(ms), tgs)

\* for each target one when its transmitter is not defined and one when no
\* map uses it,
RECURSIVE report_targets(_, _, _)
report_targets(tgs, ms, txs) ==
    IF tgs = << >> THEN << >>
    ELSE Check(HASH_FIND_INT(txs, Head(tgs).transmitter_id) = 0,
               "Transmitter referenced in target but not defined", Head(tgs).transmitter_id)
         \o Check(map_uses(ms, Head(tgs).id, 0) = 0,
                  "Target defined, but not used in any maps", Head(tgs).id)
         \o report_targets(Tail(tgs), ms, txs)

\* and one for each transmitter that no target uses.
RECURSIVE report_transmitters(_, _)
report_transmitters(txs, tgs) ==
    IF txs = << >> THEN << >>
    ELSE Check(target_uses(tgs, Head(txs).id, 0) = 0,
               "Transmitter defined, but not used in any targets", Head(txs).id)
         \o report_transmitters(Tail(txs), tgs)

\* A validator that returns at the first loop that found a failure.
verify_says_first(ms, tgs, txs) ==
    IF report_maps(ms, tgs) # << >> THEN report_maps(ms, tgs)
    ELSE IF report_targets(tgs, ms, txs) # << >> THEN report_targets(tgs, ms, txs)
    ELSE report_transmitters(txs, tgs)

verify_says(ms, tgs, txs) ==
    report_maps(ms, tgs) \o report_targets(tgs, ms, txs) \o report_transmitters(txs, tgs)

\* A validator that keeps state between its calls: a registry it has
\* passed once fails the next time.
verify_config_once(ms, tgs, txs) ==
    IF verified > 0 /\ verify_rc = 0
    THEN -1
    ELSE verify_transmitters(txs, tgs, verify_targets(tgs, ms, txs, verify_maps(ms, tgs, 0)))

verify_config(ms, tgs, txs) ==
    verify_transmitters(txs, tgs, verify_targets(tgs, ms, txs, verify_maps(ms, tgs, 0)))

(***************************************************************************)
(* repeater.c: the dispatcher.                                             *)
(***************************************************************************)
\* A read that stops one byte short of len.
BufReadShort(buf, len) == [k \in 1..(len - 1) |-> IF k <= Len(buf) THEN buf[k] ELSE 0]

\* The first len bytes of buf[BUFFER_SIZE], which memset cleared before
\* recvfrom stored the datagram at its start.
BufRead(buf, len) == [k \in 1..len |-> IF k <= Len(buf) THEN buf[k] ELSE 0]

\* What sendto returns for len bytes: all of them were sent, -1 for an
\* error, a count short of len.
sendto(len, outcome) ==
    CASE outcome = "sent" -> len
      [] outcome = "error" -> -1
      [] outcome = "short" -> IF len > 0 THEN len - 1 ELSE -1

\* The sendto calls of one send_packet call: none when the target or its
\* transmitter is not found, otherwise one.  target_id tags the call with
\* the argument it was made for; rc is what sendto returned, and logged
\* says that "ERROR: sendto failed on packet." was printed.
send_packet(buf, len, target_id, outcome) ==
    LET target == HASH_FIND_INT(targets, target_id)
        transmitter == HASH_FIND_INT(transmitters, targets[target].transmitter_id)
        rc == sendto(len, outcome)
    IN  IF target = 0 THEN << >>
        ELSE IF transmitter = 0 THEN << >>
        ELSE << [socket |-> transmitters[transmitter].sockfd,
                 dest_addr |-> htonl(targets[target].address),
                 dest_port |-> htons(targets[target].port),
                 bytes |-> BufRead(buf, len), len |-> len, target_id |-> target_id,
                 rc |-> rc, logged |-> rc # len] >>

\* A test that leaves the listener of the map out.
MapMatches_any_listener(map, listener_id, src_ip, src_port) ==
    /\ (map.address = src_ip \/ map.address = 0)
    /\ (map.port = src_port \/ map.port = 0)

\* The test of the while loop over the maps.
MapMatches(map, listener_id, src_ip, src_port) ==
    /\ map.listener_id = listener_id
    /\ (map.address = src_ip \/ map.address = 0)
    /\ (map.port = src_port \/ map.port = 0)

\* A walk of the map list that ends at the first map that matches.
RECURSIVE forward_first(_, _, _, _, _, _, _)
forward_first(ms, listener_id, src_ip, src_port, buf, n, tx) ==
    IF ms = << >> THEN << >>
    ELSE IF MapMatches(Head(ms), listener_id, src_ip, src_port)
         THEN send_packet(buf, n, Head(ms).target_id, Head(tx))
         ELSE forward_first(Tail(ms), listener_id, src_ip, src_port, buf, n, tx)

\* A walk of the map list that ends at the first sendto that fails.
RECURSIVE forward_until_failure(_, _, _, _, _, _, _)
forward_until_failure(ms, listener_id, src_ip, src_port, buf, n, tx) ==
    IF ms = << >> THEN << >>
    ELSE LET out == IF MapMatches(Head(ms), listener_id, src_ip, src_port)
                    THEN send_packet(buf, n, Head(ms).target_id, Head(tx))
                    ELSE << >>
         IN  IF out # << >> /\ out[1].logged
             THEN out
             ELSE out \o forward_until_failure(Tail(ms), listener_id, src_ip, src_port, buf, n,
                                               IF out = << >> THEN tx ELSE Tail(tx))

\* while (map != NULL): the sends for the maps from map on, in list order.
\* tx holds what the sendto calls will return, in the order of the calls.
RECURSIVE forward(_, _, _, _, _, _, _)
forward(ms, listener_id, src_ip, src_port, buf, n, tx) ==
    IF ms = << >> THEN << >>
    ELSE LET out == IF MapMatches(Head(ms), listener_id, src_ip, src_port)
                    THEN send_packet(buf, n, Head(ms).target_id, Head(tx))
                    ELSE << >>
         IN  out \o forward(Tail(ms), listener_id, src_ip, src_port, buf, n,
                            IF out = << >> THEN tx ELSE Tail(tx))

\* recvfrom(fd, buf, BUFFER_SIZE, ...): the datagram the kernel hands over,
\* cut to the size of the buffer.
recvfrom(payload) ==
    SubSeq(payload, 1, IF Len(payload) < BUFFER_SIZE THEN Len(payload) ELSE BUFFER_SIZE)

\* A dispatcher that goes on to the maps when recvfrom failed.
recv_and_forward_packet_unchecked(fd, rx, tx) ==
    LET listener_id == ListenerIdOf(fd)
        buf == recvfrom(rx.payload)
        src_ip == ntohl(rx.src_addr)
        src_port == ntohs(rx.src_port)
    IN  [fd |-> fd, listener_id |-> listener_id, recvs |-> 1,
         n |-> IF rx.ok THEN Len(buf) ELSE -1,
         src_addr |-> rx.src_addr, src_port |-> rx.src_port, payload |-> rx.payload,
         sent |-> IF listener_id = -1 THEN << >>
                  ELSE forward(maps, listener_id, src_ip, src_port, buf, Len(buf), tx)]

\* A dispatcher without the test for the socket of a transmitter.
recv_and_forward_packet_any(fd, rx, tx) ==
    LET listener_id == ListenerIdOf(fd)
        buf == recvfrom(rx.payload)
        src_ip == ntohl(rx.src_addr)
        src_port == ntohs(rx.src_port)
    IN  [fd |-> fd, listener_id |-> listener_id, recvs |-> 1,
         n |-> IF rx.ok THEN Len(buf) ELSE -1,
         src_addr |-> IF rx.ok THEN rx.src_addr ELSE INADDR_ANY,
         src_port |-> IF rx.ok THEN rx.src_port ELSE << 0, 0 >>,
         payload |-> IF rx.ok THEN rx.payload ELSE << >>,
         sent |-> IF ~rx.ok THEN << >>
                  ELSE forward(maps, listener_id, src_ip, src_port, buf, Len(buf), tx)]

\* A dispatcher that returns when recvfrom returned 0 as well.
recv_and_forward_packet_nonempty(fd, rx, tx) ==
    LET listener_id == ListenerIdOf(fd)
        buf == recvfrom(rx.payload)
        n == Len(buf)
        src_ip == ntohl(rx.src_addr)
        src_port == ntohs(rx.src_port)
        call == [fd |-> fd, listener_id |-> listener_id, recvs |-> 1, n |-> n,
                 src_addr |-> rx.src_addr, src_port |-> rx.src_port,
                 payload |-> rx.payload, sent |-> << >>]
    IN  IF ~rx.ok THEN [NoDispatch EXCEPT !.fd = fd, !.listener_id = listener_id, !.recvs = 1]
        ELSE IF listener_id = -1 \/ n = 0 THEN call
        ELSE [call EXCEPT !.sent = forward(maps, listener_id, src_ip, src_port, buf, n, tx)]

\* recv_and_forward_packet(fd), where rx is what recvfrom does: it fails
\* (rx.ok is false) or delivers rx.payload from rx.src_addr, rx.src_port,
\* and tx is what the sendto calls return.  recvs counts the recvfrom calls.
recv_and_forward_packet(fd, rx, tx) ==
    LET listener_id == ListenerIdOf(fd)
        buf == recvfrom(rx.payload)
        n == Len(buf)
        src_ip == ntohl(rx.src_addr)
        src_port == ntohs(rx.src_port)
        call == [fd |-> fd, listener_id |-> listener_id, recvs |-> 1, n |-> n,
                 src_addr |-> rx.src_addr, src_port |-> rx.src_port,
                 payload |-> rx.payload, sent |-> << >>]
    IN  IF ~rx.ok THEN [NoDispatch EXCEPT !.fd = fd, !.listener_id = listener_id, !.recvs = 1]
        ELSE IF listener_id = -1 THEN call
        ELSE [call EXCEPT !.sent = forward(maps, listener_id, src_ip, src_port, buf, n, tx)]

(***************************************************************************)
(* Inputs: the objects a rules file may hold.  Entities of a kind are      *)
(* numbered 1, 2, ... in the order they are first defined; an id already   *)
(* in use, 0 and -1 are the faulty ones.  References range over RefIds.    *)
(* As in conf/example_rules.json, the first listener listens on port 8001  *)
(* and the second on 8002, target 1 is 127.0.0.1:9000 and target 2 is      *)
(* 127.0.0.1:9001.                                                         *)
(***************************************************************************)
T_8001 == << "8", "0", "0", "1" >>
T_8002 == << "8", "0", "0", "2" >>
T_9000 == << "9", "0", "0", "0" >>
T_9001 == << "9", "0", "0", "1" >>
T_4000 == << "4", "0", "0", "0" >>
T_localhost == << "1", "2", "7", ".", "0", ".", "0", ".", "1" >>
T_any == << "0", ".", "0", ".", "0", ".", "0" >>

\* 2^32 + 4002: a port number that no int holds.
T_wide == << "4", "2", "9", "4", "9", "7", "1", "2", "9", "8" >>

\* Port texts outside 1025..65535: not a number, a well-known port, the two
\* ends of the range, a negative number.
BadPortTexts ==
    { << "u", "d", "p" >>, << "8", "0" >>, << "1", "0", "2", "4" >>,
      << "6", "5", "5", "3", "6" >>, << "-", "8", "0", "0", "1" >> }

\* Texts that are no IPv4 address.
BadAddressTexts ==
    { << "2", "5", "6", ".", "0", ".", "0", ".", "1" >>, << "1", "2", "7", ".", "1" >> }

RefIds == { 1, 2 }
BadIds == { 0, -1 }

IdsOf(table) == { table[k].id : k \in 1..Len(table) }
ListenerIds == { listener_ids[fd] : fd \in { d \in DOMAIN listener_ids : listener_ids[d] > 0 } }

NextId(used) ==
    CHOOSE n \in 1..(Cardinality(used) + 1) : n \notin used /\ \A m \in 1..(n - 1) : m \in used
IdChoices(used) == used \cup { NextId(used) } \cup BadIds

Object3(id, address, port) ==
    << IntField(N_id, id), StrField(N_address, address), StrField(N_port, port) >>

Object4(id, address, port, transmitter) ==
    Object3(id, address, port) \o << IntField(N_transmitter, transmitter) >>

ObjectM(source, tgts, address, port) ==
    << IntField(N_source, source), ArrField(N_target, tgts),
       StrField(N_address, address), StrField(N_port, port) >>

\* The objects that differ from obj in member k: another text, a value of
\* the wrong type, the member left out.
FaultyMembers(obj, k, bad_texts) ==
    { [obj EXCEPT ![k] = StrField(obj[k].name, t)] : t \in bad_texts }
    \cup { [obj EXCEPT ![k] = ArrField(obj[k].name, << >>)] }
    \cup { SubSeq(obj, 1, k - 1) \o SubSeq(obj, k + 1, Len(obj)) }

\* A name that begins with the expected one: "identifier" for "id", and
\* the plural of the others.
Longer(name) == IF name = N_id THEN N_identifier ELSE name \o << "s" >>
LongerNames(obj) == [k \in 1..Len(obj) |-> [obj[k] EXCEPT !.name = Longer(@)]]

\* The names of the top-level members: those of conf/example_rules.json and
\* their plurals.
SectionTexts ==
    { N_listen, N_transmit, N_target, N_map }
    \cup { Longer(N_listen), Longer(N_transmit), Longer(N_target), Longer(N_map) }

\* obj with two faulty members: an address that is none and a well-known
\* port.
TwoFaults(obj) ==
    [obj EXCEPT ![2] = StrField(obj[2].name, << "1", "2", "7", ".", "1" >>),
                ![3] = StrField(obj[3].name, << "8", "0" >>)]

ListenerCount == Cardinality({ fd \in DOMAIN listener_ids : listener_ids[fd] > 0 })
ListenPort == IF ListenerCount = 0 THEN T_8001 ELSE T_8002

ListenObjects ==
    LET nominal == Object3(NextId(ListenerIds), Star, ListenPort)
    IN  { Object3(id, Star, ListenPort) : id \in IdChoices(ListenerIds) }
        \cup FaultyMembers(nominal, 1, { T_8001 })
        \cup FaultyMembers(nominal, 2, BadAddressTexts)
        \cup FaultyMembers(nominal, 3, BadPortTexts \cup { Star })
        \cup { LongerNames(nominal), TwoFaults(nominal) }

TransmitObjects ==
    LET nominal == Object3(NextId(IdsOf(transmitters)), Star, Star)
    IN  { Object3(id, Star, Star) : id \in IdChoices(IdsOf(transmitters)) }
        \cup FaultyMembers(nominal, 1, { T_8001 })
        \cup FaultyMembers(nominal, 2, BadAddressTexts)
        \cup FaultyMembers(nominal, 3, BadPortTexts)
        \cup { LongerNames(nominal) }

TargetPort(id) == IF id = 2 THEN T_9001 ELSE T_9000

TargetObjects ==
    LET next == NextId(IdsOf(targets))
        nominal == Object4(next, T_localhost, TargetPort(next), 1)
    IN  { Object4(id, T_localhost, TargetPort(id), tx) :
            id \in IdChoices(IdsOf(targets)), tx \in RefIds }
        \cup { Object4(next, T_localhost, TargetPort(next), tx) : tx \in BadIds }
        \cup FaultyMembers(nominal, 1, { T_9000 })
        \cup FaultyMembers(nominal, 2, BadAddressTexts \cup { Star, T_any })
        \cup FaultyMembers(nominal, 3, BadPortTexts \cup { Star })
        \cup FaultyMembers(nominal, 4, { T_9000 })
        \cup { LongerNames(nominal), Object4(next, T_any, TargetPort(next), 0) }

MapSources == RefIds \cup { -1 }
MapFilters == { << Star, Star >>, << T_localhost, T_4000 >> }
MapTargetArrays ==
    { << IntElem(t) >> : t \in RefIds }
    \cup { << >>, << IntElem(1), IntElem(2) >>, << IntElem(1), IntElem(1) >>,
           << IntElem(1), [type |-> "string", int |-> 0] >> }

MapObjects ==
    LET nominal == ObjectM(1, << IntElem(1) >>, Star, Star)
    IN  { ObjectM(src, tgts, flt[1], flt[2]) :
            src \in MapSources, tgts \in MapTargetArrays, flt \in MapFilters }
        \cup { ObjectM(1, << IntElem(t) >>, Star, Star) : t \in BadIds }
        \cup { ObjectM(0, << IntElem(1) >>, Star, Star) }
        \cup FaultyMembers(nominal, 1, { T_8001 })
        \cup FaultyMembers(nominal, 2, { T_8001 })
        \cup FaultyMembers(nominal, 3, BadAddressTexts)
        \cup FaultyMembers(nominal, 4, BadPortTexts \cup { T_wide })
        \cup { LongerNames(nominal) }

\* The system calls of open_socket and create_transmitter that may fail.
OsOutcomes == { "ok", "socket", "SO_REUSEADDR", "SO_RCVBUF", "O_NONBLOCK", "bind", "SO_SNDBUF" }

\* Datagrams that may arrive: two source addresses, two source ports, every
\* payload of at most MaxPayloadLen bytes.
Bytes == { 66 }
Payloads == UNION { [1..n -> Bytes] : n \in 0..MaxPayloadLen }
SrcAddrs == { << 127, 0, 0, 1 >>, << 10, 0, 0, 1 >> }
SrcPorts == { htons(4000), htons(4001) }
RecvOutcomes ==
    [ok : { TRUE }, src_addr : SrcAddrs, src_port : SrcPorts, payload : Payloads]
    \cup { [ok |-> FALSE, src_addr |-> INADDR_ANY, src_port |-> << 0, 0 >>, payload |-> << >>] }

\* What the sendto calls of one dispatch return, in the order of the calls:
\* at most one of them fails.
SendFailures == { "error", "short" }
SendOutcomes ==
    { [k \in 1..MaxMaps |-> "sent"] }
    \cup { [k \in 1..MaxMaps |-> IF k = bad THEN f ELSE "sent"] :
             bad \in 1..MaxMaps, f \in SendFailures }

\* The revents poll may leave for a descriptor.
ReventsChoices == { { }, { "POLLIN" }, { "POLLIN", "POLLERR" }, { "POLLERR" } }

\* The errors poll may fail with ("" for none); EINTR is the wait
\* interrupted by a signal.
PollErrors == { "EINTR", "ENOMEM" }

(***************************************************************************)
(* Initial state: main() has opened nothing and parsed nothing.            *)
(***************************************************************************)
Init ==
    /\ pc = "config"
    /\ exit_code = -1
    /\ found = { }
    /\ cfg_ports = { }
    /\ poll_fds = << >>
    /\ listener_ids = << >>
    /\ sockets = << >>
    /\ transmitters = << >>
    /\ targets = << >>
    /\ maps = << >>
    /\ verify_rc = 1
    /\ verified = 0
    /\ loop = "off"
    /\ revents = { }
    /\ i = 0
    /\ dispatch = NoDispatch
    /\ poll_errno = ""
    /\ diag = << >>
    /\ parsed = << >>
    /\ lowest_fd = StdStreams

(***************************************************************************)
(* parseconfig.c: parse_rules and the object parsers.                      *)
(***************************************************************************)
SectionNames == { "listen", "transmit", "target", "map" }

\* The rules files considered list their sections in the order of
\* conf/example_rules.json; a file may end after any of them.
SectionOrder == << "listen", "transmit", "target", "map" >>
Through(k) == { SectionOrder[j] : j \in 1..k }
Reading(section) == \E k \in 1..Len(SectionOrder) : SectionOrder[k] = section /\ found = Through(k)
Follows(section) == \E k \in 1..Len(SectionOrder) : SectionOrder[k] = section /\ found = Through(k - 1)

\* The chain of strncmp tests on the name of a top-level member: the
\* section it selects, "" for an unrecognized token.
section_of(name) ==
    IF HasPrefix(name, N_listen) THEN "listen"
    ELSE IF HasPrefix(name, N_transmit) THEN "transmit"
    ELSE IF HasPrefix(name, N_target) THEN "target"
    ELSE IF HasPrefix(name, N_map) THEN "map"
    ELSE ""

\* One member of the top-level object whose name selects a section: the
\* section is marked found; a value that is not an array is fatal.
parse_rules(name, type) ==
    /\ pc = "config"
    /\ Follows(section_of(name))
    /\ IF type # "array"
       THEN Fail(<< Diagnostic("type is not array", 0) >>)
       ELSE /\ found' = found \cup { section_of(name) }
            /\ UNCHANGED << pc, exit_code, cfg_ports, regVars, verify_rc, verified, loopVars,
                            diag, lowest_fd >>

\* A top-level member as a JSON value: its name and the type of its value.
Member(name, type) == << [name |-> name, type |-> type, int |-> 0, str |-> << >>, arr |-> << >>] >>

\* value was handed to a parser: it is on record if the parser called exit.
Handed(value) == parsed' = IF pc' = "exited" THEN value ELSE << >>

ParseRules ==
    \E name \in SectionTexts, type \in { "array", "object" } :
        parse_rules(name, type) /\ Handed(Member(name, type))

\* The port texts of the accepted objects, ptext being the one just read.
Accepted(ptext) == cfg_ports' = IF pc' = "exited" THEN { } ELSE cfg_ports \cup { ptext }

\* parse_listener on one object of the array, whatever came before it.
listener_object(obj, os) ==
    /\ pc = "config"
    /\ \E st \in { Complete(r, FALSE) : r \in listener_members(obj, Locals) } :
         IF st.exit
         THEN Fail(st.diag)
         ELSE create_listener(st.id, st.address, st.port, os) /\ Accepted(st.ptext)

\* The objects of the "listen" array are parsed while that section is read.
parse_listener(obj, os) == Reading("listen") /\ listener_object(obj, os)

ParseListener ==
    \/ \E obj \in ListenObjects : parse_listener(obj, "ok") /\ Handed(obj)
    \/ \E os \in OsOutcomes :
          LET obj == Object3(NextId(ListenerIds), Star, ListenPort)
          IN  parse_listener(obj, os) /\ Handed(obj)

\* parse_transmitter on one object of the array, whatever came before it.
transmitter_object(obj, os) ==
    /\ pc = "config"
    /\ \E st \in { Complete(r, FALSE) : r \in transmitter_members(obj, Locals) } :
         IF st.exit
         THEN Fail(st.diag)
         ELSE create_transmitter(st.id, st.address, st.port, os) /\ Accepted(st.ptext)

\* The objects of the "transmit" array are parsed while that section is read.
parse_transmitter(obj, os) == Reading("transmit") /\ transmitter_object(obj, os)

ParseTransmitter ==
    \/ \E obj \in TransmitObjects : parse_transmitter(obj, "ok") /\ Handed(obj)
    \/ \E os \in OsOutcomes :
          LET obj == Object3(NextId(IdsOf(transmitters)), Star, Star)
          IN  parse_transmitter(obj, os) /\ Handed(obj)

\* parse_target on one object of the array, whatever came before it.
target_object(obj) ==
    /\ pc = "config"
    /\ \E st \in { Complete(r, TRUE) : r \in target_members(obj, Locals) } :
         IF st.exit
         THEN Fail(st.diag)
         ELSE create_target(st.id, st.address, st.port, st.ref) /\ Accepted(st.ptext)

\* The objects of the "target" array are parsed while that section is read.
parse_target(obj) == Reading("target") /\ target_object(obj)

ParseTarget == \E obj \in TargetObjects : parse_target(obj) /\ Handed(obj)

\* A loop over the targets array that ends after its first element.
create_maps_first(list, source, address, port, tgts) ==
    IF tgts = << >> THEN list
    ELSE create_map(list, source, address, port, Head(tgts))

\* create_map for each element of the targets array, in array order.
RECURSIVE create_maps(_, _, _, _, _)
create_maps(list, source, address, port, tgts) ==
    IF tgts = << >> THEN list
    ELSE create_maps(create_map(list, source, address, port, Head(tgts)),
                     source, address, port, Tail(tgts))

\* parse_map on one object of the array, whatever came before it.
map_object(obj) ==
    /\ pc = "config"
    /\ \E st \in { CompleteMap(r) : r \in map_members(obj, Locals) } :
         IF st.exit THEN Fail(st.diag)
         ELSE IF Len(IntegerPrefix(st.targets)) < Len(st.targets)
         THEN Fail(<< Diagnostic("target must be an array of integers", 0) >>)
         ELSE /\ Len(maps) + Len(st.targets) <= MaxMaps
              /\ maps' = create_maps(maps, st.id, st.address, st.port, IntegerPrefix(st.targets))
              /\ cfg_ports' = cfg_ports \cup { st.ptext }
              /\ UNCHANGED << pc, exit_code, found, poll_fds, listener_ids, sockets,
                              transmitters, targets, verify_rc, verified, loopVars,
                              diag, lowest_fd >>

\* The objects of the "map" array are parsed while that section is read.
parse_map(obj) == Reading("map") /\ map_object(obj)

ParseMap == \E obj \in MapObjects : parse_map(obj) /\ Handed(obj)

(***************************************************************************)
(* repeater.c: start_repeater, with main() around it.  forked and logfile  *)
(* say whether fork() and the opening of the log file succeed.             *)
(***************************************************************************)
\* main() after start_repeater returned rc: a negative rc is reported, and
\* main ends at its closing brace, which in C99 returns 0.
main_returns(rc) ==
    /\ pc' = "exited"
    /\ exit_code' = 0

\* A start_repeater whose parent returns 0 when fork failed.
start_repeater_rc_forkless(rc, forked) == IF rc < 0 THEN -1 ELSE 0

\* What start_repeater returns to main (in the parent, when fork
\* succeeded): -1 when verify_config returned rc < 0 or fork failed.
start_repeater_rc(rc, forked) == IF rc < 0 THEN -1 ELSE IF ~forked THEN -1 ELSE 0

\* The lines start_repeater prints before it returns ret, and the line
\* main prints for a negative ret.
start_repeater_says(rc, forked) ==
    Check(rc < 0, "Config verification failed, repeater has not been started", 0)
    \o Check(rc >= 0 /\ ~forked, "Fork failed", 0)
main_says(ret) == Check(ret < 0, "Couldn't start repeater", 0)

\* A start_repeater that enters the loop whatever verify_config returned.
start_repeater_unverified(forked, logfile) ==
    LET rc == verify_config(maps, targets, transmitters)
        ret == start_repeater_rc(0, forked)
        said == verify_says(maps, targets, transmitters) \o start_repeater_says(0, forked)
                \o main_says(ret)
    IN  /\ verify_rc' = rc
        /\ verified' = verified + 1
        /\ parsed' = << >>
        /\ main_returns(ret)
        /\ IF ~forked
           THEN Released /\ UNCHANGED loop /\ diag' = diag \o said
           ELSE IF logfile
           THEN loop' = "poll" /\ UNCHANGED << cfgVars, regVars >> /\ diag' = diag \o said
           ELSE /\ loop' = "exited" /\ Released
                /\ diag' = diag \o said \o << Diagnostic("Could not open log file", 0) >>
        /\ UNCHANGED << revents, i, dispatch, poll_errno, lowest_fd >>

\* start_repeater: verify_config, then fork.  The parent returns to main;
\* the child opens the log file (a failure is fatal) and enters the loop.
start_repeater(forked, logfile) ==
    LET rc == verify_config(maps, targets, transmitters)
        ret == start_repeater_rc(rc, forked)
        said == verify_says(maps, targets, transmitters) \o start_repeater_says(rc, forked)
                \o main_says(ret)
    IN  /\ verify_rc' = rc
        /\ verified' = verified + 1
        /\ parsed' = << >>
        /\ main_returns(ret)
        /\ IF rc < 0 \/ ~forked
           THEN Released /\ UNCHANGED loop /\ diag' = diag \o said
           ELSE IF logfile
           THEN loop' = "poll" /\ UNCHANGED << cfgVars, regVars >> /\ diag' = diag \o said
           ELSE /\ loop' = "exited" /\ Released
                /\ diag' = diag \o said \o << Diagnostic("Could not open log file", 0) >>
        /\ UNCHANGED << revents, i, dispatch, poll_errno, lowest_fd >>

\* The end of parse_rules (a section that was not found is fatal), then
\* start_repeater.
Main ==
    /\ pc = "config"
    /\ IF found # SectionNames
       THEN /\ Fail(Check("listen" \notin found, "listen config not found", 0)
                    \o Check("transmit" \notin found, "transmit config not found", 0)
                    \o Check("target" \notin found, "target config not found", 0)
                    \o Check("map" \notin found, "map config not found", 0))
            /\ UNCHANGED parsed
       ELSE \E forked \in BOOLEAN, logfile \in BOOLEAN : start_repeater(forked, logfile)

(***************************************************************************)
(* repeater.c: the main loop of the daemon.  poll fills in the revents of  *)
(* every descriptor; the loop reads each of them once, at its iteration,   *)
(* and that is where the model draws its value.                            *)
(***************************************************************************)
\* poll(poll_fds, num_fds, -1) returns: with an error (poll_rc < 0, errno
\* set to error), which is fatal whatever errno is, or with a positive count.
poll(error) ==
    /\ loop = "poll"
    /\ IF error # ""
       THEN /\ loop' = "exited"
            /\ i' = 0
            /\ Released
       ELSE /\ num_fds > 0
            /\ loop' = "pass"
            /\ i' = 1
            /\ UNCHANGED << cfgVars, regVars >>
    /\ poll_errno' = error
    /\ revents' = { }
    /\ dispatch' = NoDispatch
    /\ UNCHANGED << pc, exit_code, verify_rc, verified, diag, parsed, lowest_fd >>

Poll == \E error \in PollErrors \cup { "" } : poll(error)

\* An iteration that unlinks the first map once a datagram was forwarded.
service_consuming(rev, rx, tx) ==
    LET call == IF rev = { "POLLIN" }
                THEN recv_and_forward_packet(poll_fds[i].fd, rx, tx)
                ELSE NoDispatch
    IN  /\ loop = "pass"
        /\ revents' = rev
        /\ dispatch' = call
        /\ maps' = IF call.sent # << >> THEN Tail(maps) ELSE maps
        /\ IF i < num_fds
           THEN i' = i + 1 /\ UNCHANGED loop
           ELSE i' = 0 /\ loop' = "poll"
        /\ UNCHANGED << pc, exit_code, cfgVars, poll_fds, listener_ids, sockets, transmitters,
                        targets, verify_rc, verified, poll_errno, diag, parsed, lowest_fd >>

\* One iteration of for (i = 0; i < num_fds; i++), the index kept from 1:
\* rev is poll_fds[i].revents, rx what recvfrom does if it is called and tx
\* what the sendto calls do.
service(rev, rx, tx) ==
    /\ loop = "pass"
    /\ revents' = rev
    /\ dispatch' = IF rev = { "POLLIN" }
                   THEN recv_and_forward_packet(poll_fds[i].fd, rx, tx)
                   ELSE NoDispatch
    /\ IF i < num_fds
       THEN i' = i + 1 /\ UNCHANGED loop
       ELSE i' = 0 /\ loop' = "poll"
    /\ UNCHANGED << pc, exit_code, cfgVars, regVars, verify_rc, verified, poll_errno,
                    diag, parsed, lowest_fd >>

Service ==
    \/ \E rx \in RecvOutcomes, tx \in SendOutcomes : service({ "POLLIN" }, rx, tx)
    \/ \E rev \in ReventsChoices \ { { "POLLIN" } } :
          service(rev, CHOOSE rx \in RecvOutcomes : ~rx.ok, CHOOSE tx \in SendOutcomes : TRUE)

Next ==
    \/ ParseRules
    \/ ParseListener
    \/ ParseTransmitter
    \/ ParseTarget
    \/ ParseMap
    \/ Main
    \/ Poll
    \/ Service

Spec == Init /\ [][Next]_vars

\* The validator on its own: verify_config applied, up to MaxValidations
\* times, to the registry that the rules file has built so far, which
\* stays as it is once the validator has been applied.
validate ==
    /\ pc = "config"
    /\ verified < MaxValidations
    /\ verify_rc' = verify_config(maps, targets, transmitters)
    /\ verified' = verified + 1
    /\ diag' = diag \o verify_says(maps, targets, transmitters)
    /\ UNCHANGED << pc, exit_code, cfgVars, regVars, loopVars, parsed, lowest_fd >>

ValidatorNext ==
    \/ validate
    \/ verified = 0 /\ ParseRules
    \/ verified = 0 /\ ParseListener
    \/ verified = 0 /\ ParseTransmitter
    \/ verified = 0 /\ ParseTarget
    \/ verified = 0 /\ ParseMap

ValidatorSpec == Init /\ [][ValidatorNext]_vars

(***************************************************************************)
(* The registry built in any order.  parse_rules takes the members of the  *)
(* rules object in the order of the file, so that the objects of the four  *)
(* arrays may reach the create_* calls in any order; the validator is      *)
(* applied to what they built.  The value handed to the last parser stays  *)
(* on record.                                                              *)
(***************************************************************************)
RegistryInit ==
    /\ pc = "config"
    /\ exit_code = -1
    /\ found = SectionNames
    /\ cfg_ports = { }
    /\ poll_fds = << >>
    /\ listener_ids = << >>
    /\ sockets = << >>
    /\ transmitters = << >>
    /\ targets = << >>
    /\ maps = << >>
    /\ verify_rc = 1
    /\ verified = 0
    /\ loop = "off"
    /\ revents = { }
    /\ i = 0
    /\ dispatch = NoDispatch
    /\ poll_errno = ""
    /\ diag = << >>
    /\ parsed = << >>
    /\ lowest_fd = StdStreams

AnyListener ==
    /\ verified = 0
    /\ LET obj == Object3(1, Star, T_8001)
       IN  listener_object(obj, "ok") /\ parsed' = obj

AnyTransmitter ==
    /\ verified = 0
    /\ \E id \in RefIds :
          LET obj == Object3(id, Star, Star)
          IN  transmitter_object(obj, "ok") /\ parsed' = obj

AnyTarget ==
    /\ verified = 0
    /\ \E id \in RefIds, tx \in RefIds :
          LET obj == Object4(id, T_localhost, T_9000, tx)
          IN  target_object(obj) /\ parsed' = obj

AnyMap ==
    /\ verified = 0
    /\ \E t \in RefIds :
          LET obj == ObjectM(1, << IntElem(t) >>, Star, Star)
          IN  map_object(obj) /\ parsed' = obj

RegistryNext ==
    \/ AnyListener
    \/ AnyTransmitter
    \/ AnyTarget
    \/ AnyMap
    \/ validate

RegistrySpec == RegistryInit /\ [][RegistryNext]_vars

(***************************************************************************)
(* The parsers on their own.  The rules file is read up to one of its     *)
(* sections, whose earlier arrays were empty; one top-level member is      *)
(* read and then the objects of an array, and the value handed to each     *)
(* parser stays on record.  The process may have inherited descriptors,    *)
(* and a socket may be asked for on an explicit address and port.          *)
(***************************************************************************)
InheritedFds == { StdStreams, MAX_FDS - 1 }

ParserInit ==
    /\ pc = "config"
    /\ exit_code = -1
    /\ found \in { Through(k) : k \in 0..(Len(SectionOrder) - 1) }
    /\ cfg_ports = { }
    /\ poll_fds = << >>
    /\ listener_ids = << >>
    /\ sockets = << >>
    /\ transmitters = << >>
    /\ targets = << >>
    /\ maps = << >>
    /\ verify_rc = 1
    /\ verified = 0
    /\ loop = "off"
    /\ revents = { }
    /\ i = 0
    /\ dispatch = NoDispatch
    /\ poll_errno = ""
    /\ diag = << >>
    /\ parsed = << >>
    /\ lowest_fd \in InheritedFds

\* Sockets on an explicit address, an explicit port or both.
BoundListenObjects == { Object3(NextId(ListenerIds), T_localhost, ListenPort) }
BoundTransmitObjects ==
    { Object3(NextId(IdsOf(transmitters)), flt[1], flt[2]) :
        flt \in { << Star, T_4000 >>, << T_localhost, Star >>, << T_localhost, T_4000 >> } }

TraceRules ==
    /\ parsed = << >>
    /\ \E name \in SectionTexts, type \in { "array", "object" } :
          parse_rules(name, type) /\ parsed' = Member(name, type)

TraceListener ==
    \E obj \in ListenObjects \cup BoundListenObjects, os \in { "ok", "bind" } :
        parse_listener(obj, os) /\ parsed' = obj

TraceTransmitter ==
    \E obj \in TransmitObjects \cup BoundTransmitObjects, os \in { "ok", "bind" } :
        parse_transmitter(obj, os) /\ parsed' = obj

TraceTarget == \E obj \in TargetObjects : parse_target(obj) /\ parsed' = obj

TraceMap == \E obj \in MapObjects : parse_map(obj) /\ parsed' = obj

ParserNext ==
    \/ TraceRules
    \/ TraceListener
    \/ TraceTransmitter
    \/ TraceTarget
    \/ TraceMap

ParserSpec == ParserInit /\ [][ParserNext]_vars

\* The daemon is scheduled: a pass that has begun goes on to its next
\* descriptor (recvfrom and sendto do not block, the sockets are
\* O_NONBLOCK), and poll returns when a descriptor is ready.
FairSpec == Init /\ [][Next]_vars /\ WF_vars(Poll) /\ WF_vars(Service)

(***************************************************************************)
(* Properties of the repeater.                                             *)
(***************************************************************************)
\* The Event Loop runs: the daemon is at poll or in its pass over poll_fds.
Running == loop \in { "poll", "pass" }

\* The last call of the dispatcher received a datagram on a listener socket.
Received == dispatch.n >= 0 /\ dispatch.listener_id > 0

\* The maps that match that datagram: its listener, and its source address
\* and port in host byte order or the wildcard 0.
Matching ==
    { k \in 1..Len(maps) :
        /\ maps[k].listener_id = dispatch.listener_id
        /\ (maps[k].address = ntohl(dispatch.src_addr) \/ maps[k].address = 0)
        /\ (maps[k].port = ntohs(dispatch.src_port) \/ maps[k].port = 0) }

SendsTo(t) == { k \in DOMAIN dispatch.sent : dispatch.sent[k].target_id = t }
MapTargetIds == { maps[k].target_id : k \in 1..Len(maps) }
SentTargetIds == { dispatch.sent[k].target_id : k \in DOMAIN dispatch.sent }

\* C1: for a validated configuration and a datagram received on a listener,
\* each target id is sent to as many times as there are matching maps that
\* name it: k identical matching maps give k sends, no matching map gives
\* no send.
C1_FanOutMultiset ==
    (Running /\ Received) =>
        \A t \in MapTargetIds \cup SentTargetIds :
            Cardinality(SendsTo(t)) = Cardinality({ k \in Matching : maps[k].target_id = t })

\* Two identical maps matched one datagram, which went to their target twice.
C1_Witness ==
    /\ Running /\ Received
    /\ Len(maps) = 2
    /\ [maps[1] EXCEPT !.nth = 0] = [maps[2] EXCEPT !.nth = 0]
    /\ Cardinality(Matching) = 2
    /\ Len(dispatch.sent) = 2
    /\ dispatch.sent[1].target_id = dispatch.sent[2].target_id

\* C2: every send of a received datagram carries the bytes and the length
\* that the receive returned, the same in every send of the fan-out.
C2_PayloadPreserved ==
    (Running /\ dispatch.n >= 0 /\ Len(dispatch.payload) <= BUFFER_SIZE) =>
        /\ dispatch.n = Len(dispatch.payload)
        /\ \A k \in DOMAIN dispatch.sent :
             /\ dispatch.sent[k].bytes = dispatch.payload
             /\ dispatch.sent[k].len = dispatch.n

\* A one-byte datagram was sent on to two different targets.
C2_Witness ==
    /\ Running /\ Received
    /\ dispatch.payload = << 66 >>
    /\ Len(dispatch.sent) = 2
    /\ dispatch.sent[1].target_id # dispatch.sent[2].target_id
    /\ dispatch.sent[1].bytes = << 66 >>

\* The matching map that is k-th in the order of the create_map calls.
NthMatching(k) ==
    CHOOSE j \in Matching : Cardinality({ m \in Matching : maps[m].nth <= maps[j].nth }) = k

\* The sends of the last datagram are those of the matching maps, in the
\* order in which create_map was called for them.
InInsertionOrder ==
    /\ Len(dispatch.sent) = Cardinality(Matching)
    /\ \A k \in DOMAIN dispatch.sent :
         dispatch.sent[k].target_id = maps[NthMatching(k)].target_id

\* C3: the fan-out sends of a datagram are issued in map insertion order,
\* and when the loop receives a further datagram, all sends of the one
\* before it have been issued.
C3_FanOutOrder ==
    [][ loop = "pass" =>
          /\ Received' => InInsertionOrder'
          /\ (dispatch'.n >= 0 /\ Received) => Len(dispatch.sent) = Cardinality(Matching)
      ]_vars

\* A datagram matched the two maps and went to target 2, the target of the
\* first create_map call, before target 1.
C3_Witness ==
    /\ Running /\ Received
    /\ Len(dispatch.sent) = 2
    /\ dispatch.sent[1].target_id = 2
    /\ dispatch.sent[2].target_id = 1
    /\ maps[1].nth = 1 /\ maps[1].target_id = 2

\* The four failures of the registry that the validator reports.
UndefinedTarget == \E k \in 1..Len(maps) : maps[k].target_id \notin IdsOf(targets)
UndefinedTransmitter ==
    \E k \in 1..Len(targets) : targets[k].transmitter_id \notin IdsOf(transmitters)
UnusedTarget ==
    \E k \in 1..Len(targets) : \A m \in 1..Len(maps) : maps[m].target_id # targets[k].id
UnusedTransmitter ==
    \E k \in 1..Len(transmitters) :
        \A t \in 1..Len(targets) : targets[t].transmitter_id # transmitters[k].id
Invalid == UndefinedTarget \/ UndefinedTransmitter \/ UnusedTarget \/ UnusedTransmitter

\* C4: verify_config returns failure exactly when a map names an undefined
\* target, a target names an undefined transmitter, a target is used by no
\* map or a transmitter is used by no target, and success otherwise.
C4_Validator ==
    [][ verify_rc' # verify_rc => verify_rc' = (IF Invalid THEN -1 ELSE 0) ]_vars

\* verify_config has run and returned failure.
C4_Witness == pc = "exited" /\ verify_rc = -1 /\ loop = "off"

\* C5: the loop is entered only after verify_config returned success on the
\* registry the loop runs with; after a failed validation the loop never
\* starts and no datagram is received or forwarded.
C5_LoopAfterValidation ==
    /\ loop # "off" => verify_rc = 0
    /\ Running => ~Invalid
    /\ verify_rc < 0 => (loop = "off" /\ dispatch = NoDispatch)

\* The loop of a validated configuration has forwarded a datagram.
C5_Witness == loop = "pass" /\ verify_rc = 0 /\ Received /\ Len(dispatch.sent) = 1

\* C6: when validation fails, the process exits with a non-zero exit code.
C6_ExitsNonZero == (pc = "exited" /\ verify_rc < 0) => exit_code # 0

\* C7: while the loop runs, listener ids are pairwise distinct, transmitter
\* ids are pairwise distinct and target ids are pairwise distinct.
C7_IdsDistinct ==
    Running =>
        /\ \A a, b \in DOMAIN listener_ids :
             (a # b /\ listener_ids[a] > 0) => listener_ids[a] # listener_ids[b]
        /\ \A a, b \in 1..Len(transmitters) : a # b => transmitters[a].id # transmitters[b].id
        /\ \A a, b \in 1..Len(targets) : a # b => targets[a].id # targets[b].id

\* C8: while the loop runs, every map names a created listener and a
\* created target, and every target names a created transmitter.
C8_ReferencesResolve ==
    Running =>
        /\ \A k \in 1..Len(maps) :
             maps[k].listener_id \in ListenerIds /\ maps[k].target_id \in IdsOf(targets)
        /\ \A k \in 1..Len(targets) : targets[k].transmitter_id \in IdsOf(transmitters)

\* The port text t is "*" or the decimal numeral of a port in 1025..65535.
\* (DecimalValue is -1 for a numeral beyond INT_MAX.)
WrittenInRange(t) ==
    \/ HasPrefix(t, Star)
    \/ /\ t # << >>
       /\ DigitRun(t, 1) = t
       /\ DecimalValue(t, 0) > 1024
       /\ DecimalValue(t, 0) <= 65535

\* C9: while the loop runs, every port the rules file specifies lies in
\* 1025..65535.
C9_PortsInRange == Running => \A t \in cfg_ports : WrittenInRange(t)

\* C10: while the loop runs, no id field of the registry is negative: the
\* ids of the transmitters and the targets, the transmitter of a target,
\* the listener and the target of a map.  (The id of a listener is an entry
\* of listener_ids above 0; -1 there marks the socket of a transmitter.)
C10_NoNegativeId ==
    Running =>
        /\ \A id \in ListenerIds : id >= 0
        /\ \A k \in 1..Len(transmitters) : transmitters[k].id >= 0
        /\ \A k \in 1..Len(targets) : targets[k].id >= 0 /\ targets[k].transmitter_id >= 0
        /\ \A k \in 1..Len(maps) : maps[k].listener_id >= 0 /\ maps[k].target_id >= 0

\* The position in poll_fds of the descriptor the pass examined last (0 for
\* none): revents and dispatch are those of that descriptor.
Examined == IF loop = "pass" THEN i - 1 ELSE IF revents = { } /\ dispatch = NoDispatch THEN 0 ELSE num_fds

\* C11: in a pass, a descriptor that poll reported with POLLIN among its
\* revents is handed to the dispatcher, which calls recvfrom on it once, and
\* a descriptor reported without POLLIN is not read.
C11_ReadyServicedOnce ==
    (Running /\ Examined > 0) =>
        /\ "POLLIN" \in revents =>
             (dispatch.fd = poll_fds[Examined].fd /\ dispatch.recvs = 1)
        /\ "POLLIN" \notin revents => dispatch.recvs = 0

\* The descriptors the model can register.
MaxFds == MaxListeners + MaxTransmitters

\* The pass found the listener socket at position k of poll_fds readable.
ReadableSeen(k) ==
    /\ Running /\ Examined = k
    /\ "POLLIN" \in revents
    /\ ListenerIdOf(poll_fds[k].fd) > 0

\* The pass called recvfrom on the descriptor at position k.
ReadFrom(k) == Running /\ Examined = k /\ dispatch.recvs = 1

\* C12: unless the loop ends on a poll error, a listener socket that poll
\* keeps reporting readable is read again and again: the daemon cannot poll
\* forever over a readable socket that it never reads.
C12_ReadableIsRead ==
    \A k \in 1..MaxFds :
        ([]<>ReadableSeen(k)) => (([]<>ReadFrom(k)) \/ <>(loop = "exited"))

\* C13: a poll that fails with EINTR does not end the daemon, which polls
\* again; a poll that fails with any other error ends it.
C13_InterruptSurvived ==
    /\ poll_errno = "EINTR" => loop # "exited"
    /\ poll_errno \in PollErrors \ { "EINTR" } => loop = "exited"

\* C14: when a sendto of a fan-out fails (an error or a short count), the
\* failure is logged and still every matching map gets its one sendto, in
\* the order of the maps: the failed send is not repeated and the maps after
\* it are not skipped.
C14_SendFailureIsolated ==
    (Running /\ Received /\ \E k \in DOMAIN dispatch.sent : dispatch.sent[k].rc # dispatch.sent[k].len) =>
        /\ Len(dispatch.sent) = Cardinality(Matching)
        /\ \A k \in DOMAIN dispatch.sent :
             /\ dispatch.sent[k].target_id = maps[NthMatching(k)].target_id
             /\ dispatch.sent[k].logged <=> dispatch.sent[k].rc # dispatch.sent[k].len

\* The first of two sends failed and the second was made all the same.
C14_Witness ==
    /\ Running /\ Received
    /\ Len(dispatch.sent) = 2
    /\ dispatch.sent[1].rc = -1 /\ dispatch.sent[1].logged
    /\ dispatch.sent[2].rc = dispatch.sent[2].len

\* C15: when recvfrom fails on a ready descriptor, no send is issued for
\* that dispatch, the registry stays as it is, the process goes on, and the
\* pass moves to the next descriptor or, after the last, back to poll.
C15_ReceiveFailureIsolated ==
    [][ (loop = "pass" /\ dispatch'.recvs = 1 /\ dispatch'.n < 0) =>
          /\ dispatch'.sent = << >>
          /\ UNCHANGED regVars
          /\ i < num_fds => (loop' = "pass" /\ i' = i + 1)
          /\ i = num_fds => loop' = "poll"
      ]_vars

\* recvfrom failed on the first descriptor and the pass goes on to the second.
C15_Witness ==
    /\ loop = "pass" /\ i = 2
    /\ dispatch.recvs = 1 /\ dispatch.n < 0
    /\ dispatch.fd = poll_fds[1].fd
    /\ Len(maps) > 0

\* C16: when the socket of a transmitter is read, recvfrom is called once
\* and nothing is sent, whatever the maps are.
C16_TransmitterDiscards ==
    \A t \in 1..Len(transmitters) :
        (Running /\ dispatch.fd = transmitters[t].sockfd) =>
            (dispatch.recvs = 1 /\ dispatch.sent = << >>)

\* A datagram was read from the socket of a transmitter while a map with
\* listener_id -1 and wildcard source was in the list.
C16_Witness ==
    /\ Running
    /\ dispatch.n >= 0 /\ dispatch.listener_id = -1
    /\ \E t \in 1..Len(transmitters) : dispatch.fd = transmitters[t].sockfd
    /\ \E k \in 1..Len(maps) :
         maps[k].listener_id = -1 /\ maps[k].address = 0 /\ maps[k].port = 0

\* C17: the running loop is left only by a poll that failed with a fatal
\* error, one that is no interruption; a received datagram, a failed
\* recvfrom and a failed sendto leave the daemon in its pass, which ends back
\* at poll, and nothing restarts the configuration.
C17_LoopNeverReturns ==
    [][ Running =>
          /\ loop' = "exited" =>
                (loop = "poll" /\ poll_errno' \in PollErrors \ { "EINTR" })
          /\ loop = "pass" => loop' = (IF i < num_fds THEN "pass" ELSE "poll")
          /\ pc' = pc
      ]_vars

C19_RegistryFrozen ==
    [][ (Running /\ Running') =>
          UNCHANGED << transmitters, targets, maps, poll_fds, listener_ids >> ]_vars

\* The second descriptor of a pass is next, after the first was forwarded
\* to the target of the only map.
C19_Witness ==
    /\ loop = "pass" /\ i = 2
    /\ Len(maps) = 1
    /\ Len(dispatch.sent) = 1
    /\ dispatch.sent[1].rc = dispatch.sent[1].len

\* The role of a descriptor: 0 for none, "ingress" or "egress".
Role(ids, fd) ==
    IF fd \notin DOMAIN ids \/ ids[fd] = 0 THEN "none"
    ELSE IF ids[fd] > 0 THEN "ingress" ELSE "egress"

\* C20: a socket gets its role when it is created, an id above 0 for the
\* socket of a listener and -1 for the socket of a transmitter, and keeps
\* it: no entry of listener_ids that is set changes, every polled
\* descriptor is polled once, the socket of a transmitter is egress and
\* every other polled socket is ingress.
C20_RoleFixed ==
    [][ /\ \A fd \in DOMAIN listener_ids :
             fd \in DOMAIN listener_ids' => listener_ids'[fd] = listener_ids[fd]
        /\ \A k \in 1..Len(poll_fds') :
             Role(listener_ids', poll_fds'[k].fd) =
                 IF \E t \in 1..Len(transmitters') : transmitters'[t].sockfd = poll_fds'[k].fd
                 THEN "egress" ELSE "ingress"
        /\ \A j, k \in 1..Len(poll_fds') : j # k => poll_fds'[j].fd # poll_fds'[k].fd
        /\ \A t \in 1..Len(transmitters') :
             Role(listener_ids', transmitters'[t].sockfd) = "egress"
      ]_vars

\* A listener and a transmitter have their sockets, the first ingress and
\* the second egress.
C20_Witness ==
    /\ Len(poll_fds) = 2 /\ Len(transmitters) = 1
    /\ Role(listener_ids, poll_fds[1].fd) = "ingress"
    /\ Role(listener_ids, poll_fds[2].fd) = "egress"
    /\ transmitters[1].sockfd = poll_fds[2].fd

\* C21: a fatal condition met during setup (an error in the rules, a
\* socket, setsockopt, fcntl or bind call that fails, a descriptor beyond
\* MAX_FDS) ends the process with a non-zero exit code before the loop
\* starts: while the rules are parsed nothing fatal has been reported, and a
\* process that ended before start_repeater was called has reported why,
\* has a non-zero exit code and has no loop.
C21_SetupFailureFatal ==
    /\ pc = "config" => diag = << >>
    /\ (pc = "exited" /\ verified = 0) => (diag # << >> /\ exit_code > 0 /\ loop = "off")

\* bind failed on the socket of a listener and the process ended with 1.
C21_Witness ==
    /\ pc = "exited" /\ exit_code = 1 /\ loop = "off"
    /\ diag = << Diagnostic("Binding", 0) >>
    /\ parsed # << >> /\ parsed[3].str \in { T_8001, T_8002 }

\* The number of lines with that text among the diagnostics.
DiagCount(text) == Cardinality({ k \in DOMAIN diag : diag[k].text = text })
Reported(text, id) == \E k \in DOMAIN diag : diag[k] = Diagnostic(text, id)

\* The violations of the registry, one by one.
MapsOfUndefinedTarget == { k \in 1..Len(maps) : maps[k].target_id \notin IdsOf(targets) }
TargetsOfUndefinedTransmitter ==
    { k \in 1..Len(targets) : targets[k].transmitter_id \notin IdsOf(transmitters) }
TargetsUnused ==
    { k \in 1..Len(targets) : \A n \in 1..Len(maps) : maps[n].target_id # targets[k].id }
TransmittersUnused ==
    { k \in 1..Len(transmitters) :
        \A t \in 1..Len(targets) : targets[t].transmitter_id # transmitters[k].id }

\* C22: each run of verify_config goes through all maps, all targets and
\* all transmitters and prints one line for each violation, naming its id,
\* whatever it has found before.
C22_AllViolationsReported ==
    (pc = "config" /\ verified > 0) =>
        /\ DiagCount("Target referenced in map but not defined")
             = verified * Cardinality(MapsOfUndefinedTarget)
        /\ DiagCount("Transmitter referenced in target but not defined")
             = verified * Cardinality(TargetsOfUndefinedTransmitter)
        /\ DiagCount("Target defined, but not used in any maps")
             = verified * Cardinality(TargetsUnused)
        /\ DiagCount("Transmitter defined, but not used in any targets")
             = verified * Cardinality(TransmittersUnused)
        /\ Len(diag) = verified * (Cardinality(MapsOfUndefinedTarget)
                                   + Cardinality(TargetsOfUndefinedTransmitter)
                                   + Cardinality(TargetsUnused)
                                   + Cardinality(TransmittersUnused))
        /\ \A k \in MapsOfUndefinedTarget :
             Reported("Target referenced in map but not defined", maps[k].target_id)
        /\ \A k \in TransmittersUnused :
             Reported("Transmitter defined, but not used in any targets", transmitters[k].id)

\* One run over a registry whose map names the undefined target 2 and whose
\* transmitter 1 no target uses: both lines were printed.
C22_Witness ==
    /\ pc = "config" /\ verified = 1
    /\ Reported("Target referenced in map but not defined", 2)
    /\ Reported("Transmitter defined, but not used in any targets", 1)

\* The texts a parser prints for the member f taken on its own, whatever
\* atoi gives: those of the parser that accepts the most, parse_transmitter.
Texts(st) == { st.diag[k].text : k \in DOMAIN st.diag }
MemberFaults(f) ==
    LET outs == transmitter_member(f, Locals)
    IN  { t \in UNION { Texts(s) : s \in outs } : \A s \in outs : t \in Texts(s) }

\* C23: when an error in the rules ends the process, every error of the
\* object that was being parsed has been reported: each of its members that
\* is faulty on its own has its line among the diagnostics.
C23_AllErrorsReported ==
    (pc = "exited" /\ verified = 0) =>
        \A j \in DOMAIN parsed : \A t \in MemberFaults(parsed[j]) : DiagCount(t) > 0

\* What parse_target hands to create_target for the object obj, if it gets
\* that far.
TargetArgs(obj) == { st \in { Complete(r, TRUE) : r \in target_members(obj, Locals) } : ~st.exit }

\* C24: create_target(id, address, port, transmitter_id) appends the record
\* of the target when id > 0, address # 0, port # 0, transmitter_id > 0 and
\* no target has that id, and in every other case ends the process and
\* stores nothing.
C24_TargetStoredIff ==
    [][ (pc = "config" /\ Reading("target")) =>
          \A st \in TargetArgs(parsed') :
              IF /\ st.id > 0 /\ st.address # 0 /\ st.port # 0 /\ st.ref > 0
                 /\ st.id \notin IdsOf(targets)
              THEN /\ pc' = "config"
                   /\ targets' = Append(targets, [id |-> st.id, address |-> st.address,
                                                  port |-> st.port, transmitter_id |-> st.ref])
              ELSE /\ pc' = "exited" /\ exit_code' = 1
                   /\ targets' = << >>
      ]_vars

\* create_target was called with the id of a target it holds, and the
\* process ended.
C24_Witness ==
    /\ pc = "exited" /\ exit_code = 1
    /\ TargetArgs(parsed) # { }
    /\ Reported("Duplicate target ID", 1)

\* What parse_map has in its locals after the field loop and its checks for
\* the object obj, if it gets that far.
MapArgs(obj) == { st \in { CompleteMap(r) : r \in map_members(obj, Locals) } : ~st.exit }

\* The records of a map object whose target array is st.targets, the list
\* holding before records already.
Expansion(st, before) ==
    [k \in 1..Len(st.targets) |->
        [listener_id |-> st.id, address |-> st.address, port |-> st.port,
         target_id |-> st.targets[k].int, nth |-> before + k]]

\* C25: a map object with the target array [t1, ..., tn] that parse_map
\* accepts adds exactly n map records after those of the objects before
\* it, in the order of the array, each with the source, the address and the
\* port of the object.
C25_MapExpansion ==
    [][ (pc = "config" /\ Reading("map") /\ pc' = "config" /\ MapArgs(parsed') # { }) =>
          \E st \in MapArgs(parsed') :
              /\ Len(maps') = Len(maps) + Len(st.targets)
              /\ maps' = maps \o Expansion(st, Len(maps))
      ]_vars

\* The object with the target array [1, 2] gave the two records, target 1
\* before target 2.
C25_Witness ==
    /\ pc = "config" /\ Len(maps) = 2
    /\ MapArgs(parsed) # { }
    /\ Len(parsed[2].arr) = 2
    /\ maps[1].target_id = 1 /\ maps[2].target_id = 2
    /\ maps[1].listener_id = maps[2].listener_id

\* main got a negative value from start_repeater: it says so.
ReturnedFailure == Reported("Couldn't start repeater", 0)

\* C26: once start_repeater was called, it returned -1 to main exactly when
\* verify_config failed or fork failed, and then there is no daemon; it
\* returned 0 only after a validation that passed and a fork that
\* succeeded, in the parent, which has ended without polling; the child
\* does not return: it polls, or it has ended through exit.
C26_StartReturnValue ==
    verified > 0 =>
        /\ pc = "exited"
        /\ ReturnedFailure <=> (verify_rc < 0 \/ Reported("Fork failed", 0))
        /\ ReturnedFailure => loop = "off"
        /\ ~ReturnedFailure => (verify_rc = 0 /\ loop \in { "poll", "pass", "exited" })
        /\ loop = "exited" => (poll_errno # "" \/ Reported("Could not open log file", 0))

\* The validation passed and fork failed: start_repeater returned -1 and
\* no daemon runs.
C26_Witness ==
    /\ pc = "exited" /\ verified = 1 /\ verify_rc = 0
    /\ Reported("Fork failed", 0)
    /\ ReturnedFailure
    /\ loop = "off"

\* What parse_listener or parse_transmitter hands on for the object obj, if
\* it gets that far ("*" is 0; the parser of the listener takes no "*" as a
\* port).
SocketArgs(obj) ==
    { st \in { Complete(r, FALSE) : r \in transmitter_members(obj, Locals) } : ~st.exit }

\* C27: the socket that open_socket returns is unbound exactly when address
\* and port are both 0, and is otherwise bound to the port and to the
\* address, any interface for address 0; a bind that fails ends the process,
\* so that no socket is left.
C27_BindIffRequested ==
    [][ /\ (pc = "config" /\ pc' = "config" /\ num_fds' = num_fds + 1) =>
              \E st \in SocketArgs(parsed') :
                  LET s == sockets'[poll_fds'[num_fds'].fd]
                  IN  /\ s.bound <=> ~(st.address = 0 /\ st.port = 0)
                      /\ s.bound =>
                            /\ s.address = (IF st.address = 0 THEN INADDR_ANY
                                            ELSE htonl(st.address))
                            /\ s.port = htons(st.port)
        /\ Reported("Binding", 0)' => (pc' = "exited" /\ exit_code' = 1 /\ sockets' = << >>)
      ]_vars

\* A transmitter was to send from 127.0.0.1:4000, the bind failed and the
\* process ended.
C27_Witness ==
    /\ pc = "exited" /\ exit_code = 1
    /\ Reported("Binding", 0)
    /\ parsed[2].str = T_localhost /\ parsed[3].str = T_4000

\* C28: at most MAX_FDS sockets are registered, every registered descriptor
\* and every index of listener_ids that is written lies in 0..MAX_FDS-1,
\* and a create_listener or create_transmitter call for which socket()
\* returns a descriptor beyond that ends the process.
C28_DescriptorsInRange ==
    [][ /\ num_fds' <= MAX_FDS
        /\ \A k \in 1..Len(poll_fds') : poll_fds'[k].fd \in 0..(MAX_FDS - 1)
        /\ DOMAIN listener_ids' \subseteq 0..(MAX_FDS - 1)
        /\ (pc = "config" /\ socket_fd >= MAX_FDS /\ SocketArgs(parsed') # { }) =>
              (pc' = "exited" /\ exit_code' = 1)
      ]_vars

\* The process inherited the descriptors up to 254: its first listener has
\* 255, socket() returned 256 for the second, and the process ended.
C28_Witness ==
    /\ pc = "exited" /\ exit_code = 1
    /\ lowest_fd = MAX_FDS - 1
    /\ Reported("Socket exceeded MAX_FDS", 0)

\* name begins with key, character by character.
BeginsWith(name, key) == Len(name) >= Len(key) /\ \A k \in 1..Len(key) : name[k] = key[k]

\* The expected name that name begins with, name itself when there is none.
ExpectedName(name, names) ==
    IF \E key \in names : BeginsWith(name, key)
    THEN CHOOSE key \in names : BeginsWith(name, key)
    ELSE name

\* obj with each member under the expected name that its name begins with.
Canonical(obj, names) == [k \in 1..Len(obj) |-> [obj[k] EXCEPT !.name = ExpectedName(@, names)]]

ExpectedSections == { N_listen, N_transmit, N_target, N_map }
ExpectedOfSocket == { N_id, N_address, N_port }
ExpectedOfTarget == { N_id, N_address, N_port, N_transmitter }
ExpectedOfMap == { N_source, N_target, N_address, N_port }

\* C29: a section or member whose name begins with the expected name is
\* parsed as the one with the expected name: the step the parser takes on
\* the value it was handed is a step it takes on the same value with every
\* such name replaced by the expected one.
C29_NamesByPrefix ==
    [][ (pc = "config" /\ parsed' # << >>) =>
          /\ Len(parsed') = 1 =>
                parse_rules(ExpectedName(parsed'[1].name, ExpectedSections), parsed'[1].type)
          /\ (Len(parsed') > 1 /\ Reading("listen")) =>
                \E os \in OsOutcomes : parse_listener(Canonical(parsed', ExpectedOfSocket), os)
          /\ (Len(parsed') > 1 /\ Reading("transmit")) =>
                \E os \in OsOutcomes : parse_transmitter(Canonical(parsed', ExpectedOfSocket), os)
          /\ (Len(parsed') > 1 /\ Reading("target")) =>
                parse_target(Canonical(parsed', ExpectedOfTarget))
          /\ (Len(parsed') > 1 /\ Reading("map")) =>
                parse_map(Canonical(parsed', ExpectedOfMap))
      ]_vars

\* A target object with the members "identifier", "addresss", "ports" and
\* "transmitters" was parsed, and the target is stored under its id.
C29_Witness ==
    /\ pc = "config"
    /\ Len(parsed) = 4
    /\ parsed[1].name = N_identifier
    /\ Canonical(parsed, ExpectedOfTarget) # parsed
    /\ targets # << >>
    /\ targets[Len(targets)].id = parsed[1].int
    /\ targets[Len(targets)].transmitter_id = parsed[4].int

\* The two lookups of send_packet for map k: the target of the map and the
\* transmitter of that target.
TargetOfMap(k) == HASH_FIND_INT(targets, maps[k].target_id)
TransmitterOfMap(k) == HASH_FIND_INT(transmitters, targets[TargetOfMap(k)].transmitter_id)

\* C30: while the Event Loop runs, both lookups of send_packet succeed
\* for every map, so that a received datagram has one send attempt for
\* each matching map, each on the socket of a defined transmitter.
C30_LookupsSucceed ==
    Running =>
        /\ \A k \in 1..Len(maps) : TargetOfMap(k) # 0 /\ TransmitterOfMap(k) # 0
        /\ Received =>
              /\ Len(dispatch.sent) = Cardinality(Matching)
              /\ \A s \in DOMAIN dispatch.sent :
                    \E k \in Matching :
                        /\ dispatch.sent[s].target_id = maps[k].target_id
                        /\ dispatch.sent[s].socket = transmitters[TransmitterOfMap(k)].sockfd

\* Of two maps one matched the datagram: send_packet found its target and
\* the transmitter, and made the one send attempt.
C30_Witness ==
    /\ Running /\ Received
    /\ Len(maps) = 2
    /\ Cardinality(Matching) = 1
    /\ Len(dispatch.sent) = 1
    /\ \A k \in Matching :
          /\ dispatch.sent[1].target_id = maps[k].target_id
          /\ dispatch.sent[1].socket = transmitters[TransmitterOfMap(k)].sockfd

\* The sequences that hold the records of s in some order.
Orders(s) ==
    { [k \in 1..Len(s) |-> s[p[k]]] :
        p \in { q \in [1..Len(s) -> 1..Len(s)] :
                  \A a, b \in 1..Len(s) : q[a] = q[b] => a = b } }

\* C31: the verdict of the validator is the one it gives for the same
\* maps, targets and transmitters in any other order, whatever the order
\* in which the create_* calls were made.
C31_OrderIrrelevant ==
    (pc = "config" /\ verified > 0) =>
        \A ms \in Orders(maps), tgs \in Orders(targets), txs \in Orders(transmitters) :
            verify_config(ms, tgs, txs) = verify_rc

\* The transmitter was created last, after the two targets that name it
\* and the maps, which name the targets in the reverse of the order in
\* which they were created: the validator passed the registry.
C31_Witness ==
    /\ pc = "config" /\ verified > 0 /\ verify_rc = 0
    /\ Len(parsed) = 3 /\ parsed[3].str = Star
    /\ Len(transmitters) = 1
    /\ Len(targets) = 2 /\ Len(maps) = 2
    /\ targets[1].id = maps[2].target_id
    /\ targets[2].id = maps[1].target_id

\* The maps that name listener id as their source.
MapsOfListener(id) == { k \in 1..Len(maps) : maps[k].listener_id = id }

\* C32: a datagram received on a listener that no map names is dropped:
\* the validator had passed the registry, nothing is sent, and the Event
\* Loop goes on with its pass or with the next poll.
C32_UnmappedListenerDrops ==
    (/\ dispatch.recvs = 1 /\ dispatch.n >= 0
     /\ dispatch.listener_id > 0
     /\ MapsOfListener(dispatch.listener_id) = { }) =>
        /\ verify_rc = 0
        /\ dispatch.sent = << >>
        /\ Running
        /\ loop = "pass" => i \in 1..num_fds

\* The validator passed a registry with a listener that no map names,
\* beside a map with a wildcard source for another listener; a datagram
\* was received on the unused listener and nothing was sent.
C32_Witness ==
    /\ Running /\ verify_rc = 0
    /\ dispatch.recvs = 1 /\ dispatch.n >= 0
    /\ dispatch.listener_id > 0
    /\ MapsOfListener(dispatch.listener_id) = { }
    /\ \E k \in 1..Len(maps) : maps[k].address = 0 /\ maps[k].port = 0 /\ maps[k].listener_id > 0
    /\ dispatch.sent = << >>

\* The descriptors in the poll set, and those whose entry in listener_ids
\* is the id of a listener.
PolledFds == { poll_fds[k].fd : k \in 1..num_fds }
ListenerFds == { fd \in DOMAIN listener_ids : listener_ids[fd] > 0 }

\* C33: while the Event Loop runs, the poll set holds the created sockets,
\* each once and for POLLIN, as many as there are listeners and
\* transmitters, and the entry of each polled descriptor in listener_ids
\* was written by its creator: the id of a listener or -1, never the 0 the
\* table starts with.
C33_PollSetComplete ==
    Running =>
        /\ PolledFds = DOMAIN sockets
        /\ \A j, k \in 1..num_fds : j # k => poll_fds[j].fd # poll_fds[k].fd
        /\ \A k \in 1..num_fds : poll_fds[k].events = "POLLIN"
        /\ num_fds = Cardinality(ListenerFds) + Len(transmitters)
        /\ \A fd \in PolledFds : ListenerIdOf(fd) > 0 \/ ListenerIdOf(fd) = -1
        /\ \A fd \in PolledFds :
              ListenerIdOf(fd) = -1 <=> \E t \in 1..Len(transmitters) : transmitters[t].sockfd = fd

\* The Event Loop is at its first poll with the sockets of two listeners
\* and a transmitter in the poll set.
C33_Witness ==
    /\ loop = "poll" /\ dispatch = NoDispatch /\ poll_errno = ""
    /\ num_fds = 3
    /\ Cardinality(ListenerFds) = 2
    /\ Len(transmitters) = 1
    /\ ListenerIdOf(transmitters[1].sockfd) = -1

\* The records that hold id in a table.
Holding(table, id) == { k \in 1..Len(table) : table[k].id = id }

\* C34: the ids of listeners, transmitters and targets are looked up each
\* in its own table.  A transmitter is a duplicate only of a transmitter
\* and a target only of a target, whatever ids the other tables hold; and
\* each send of a received datagram is for a map whose listener_id is the
\* id of the receiving socket, to the target that has the map's target_id
\* in the table of targets, on the socket of the transmitter that has the
\* target's transmitter_id in the table of transmitters.
C34_SeparateNamespaces ==
    [][ /\ (pc = "config" /\ Reading("transmit")) =>
              \A st \in SocketArgs(parsed') :
                  Reported("Duplicate transmitter ID", 0)' <=> Holding(transmitters, st.id) # { }
        /\ (pc = "config" /\ Reading("target")) =>
              \A st \in TargetArgs(parsed') :
                  Reported("Duplicate target ID", st.id)' <=> Holding(targets, st.id) # { }
        /\ (loop = "pass" /\ Received') =>
              /\ dispatch'.listener_id = ListenerIdOf(dispatch'.fd)
              /\ \A s \in DOMAIN dispatch'.sent :
                    \E k \in 1..Len(maps) :
                      /\ maps[k].listener_id = ListenerIdOf(dispatch'.fd)
                      /\ maps[k].target_id = dispatch'.sent[s].target_id
                      /\ \E t \in Holding(targets, maps[k].target_id) :
                            /\ dispatch'.sent[s].dest_addr = htonl(targets[t].address)
                            /\ dispatch'.sent[s].dest_port = htons(targets[t].port)
                            /\ \E x \in Holding(transmitters, targets[t].transmitter_id) :
                                  dispatch'.sent[s].socket = transmitters[x].sockfd
      ]_vars

\* Listener 1, transmitter 1 and target 1 are in one registry, with a
\* second target whose id is that of no transmitter; a datagram received
\* on listener 1 went to target 2 through transmitter 1.
C34_Witness ==
    /\ Running /\ Received
    /\ dispatch.listener_id = 1
    /\ Holding(transmitters, 1) # { } /\ Holding(transmitters, 2) = { }
    /\ Holding(targets, 1) # { } /\ Holding(targets, 2) # { }
    /\ \E s \in DOMAIN dispatch.sent : dispatch.sent[s].target_id = 2

\* C35: a datagram of length 0 received on a listener is forwarded like any
\* other: one send of length 0 for each matching map, and a send for which
\* sendto returned 0 is not logged as failed.
C35_EmptyDatagramForwarded ==
    (Running /\ dispatch.recvs = 1 /\ dispatch.n = 0 /\ dispatch.listener_id > 0) =>
        /\ Len(dispatch.sent) = Cardinality(Matching)
        /\ \A s \in DOMAIN dispatch.sent :
              /\ dispatch.sent[s].len = 0
              /\ dispatch.sent[s].bytes = << >>
              /\ dispatch.sent[s].rc = 0 => ~dispatch.sent[s].logged

\* An empty datagram matched a map: sendto was called with length 0,
\* returned 0, and nothing was logged.
C35_Witness ==
    /\ Running
    /\ dispatch.recvs = 1 /\ dispatch.n = 0 /\ dispatch.payload = << >>
    /\ dispatch.listener_id > 0
    /\ Len(dispatch.sent) = 1
    /\ dispatch.sent[1].len = 0
    /\ dispatch.sent[1].rc = 0
    /\ ~dispatch.sent[1].logged

====
